---- MODULE Spec2Model ----
(***************************************************************************)
(* Key lifecycle and usage reconciliation of the OpenRouter agent.         *)
(*                                                                         *)
(* The relational store (tables user_api_keys and api_usage_logs with      *)
(* their SQL functions and trigger), the upstream key provider, and the    *)
(* request handlers / scheduled passes that work on them.  Every await of  *)
(* a handler on the store or the provider is one step, so that overlapping *)
(* requests interleave exactly at the points where the code yields.        *)
(*                                                                         *)
(* Money: JavaScript numbers and DECIMAL(10,6) values are counted in       *)
(* micro-dollars, DECIMAL(10,2) columns in cents.                          *)
(***************************************************************************)
EXTENDS Integers, Sequences, FiniteSets, Bags, TLC

\* ------------------------------------------------------------------ bounds

\* Provider keys ever created (each stored row refers to one of them), with
\* requests served one after the other.
MaxKeys == 4
\* The same where usage is logged too, or requests overlap.
MaxKeysSmall == 3
\* Rows of api_usage_logs.
MaxLogs == 2
\* Month boundaries crossed.
MaxCycle == 1
\* Calls of reset_monthly_usage within one month.
MaxResets == 2
\* Key ids in one batch request.
MaxBatch == 2
\* API_RATE_WINDOW and API_RATE_LIMIT, and how far the clock runs, in ticks.
windowMs == 2
maxRequests == 2
MaxTime == 6

Users == {1, 2}
Procs == {"a", "b"}

\* ------------------------------------------------------------ data model

\* SQL NULL / JavaScript null in a numeric column or argument.
NULL == -1
\* JavaScript undefined (a property the object does not have).
Undefined == -2
\* A JavaScript function object (a property inherited from Object.prototype).
JsFunction == -3

\* costUsd of a logged request, in micro-dollars: 0.004 and 1.0 dollars.
CostInputs == {4000, 1000000}
\* monthlyLimit of a create-user request, in micro-dollars (absent, or 20.00).
LimitInputs == {Undefined, 20000000}
\* plan of the user's active subscription as read by create-user; "" stands
\* for no active subscription row, "gold" for a tier the table does not know,
\* "constructor" for one that names a property every object inherits.
PlanInputs ==
  {"", "free", "standard", "micro", "operator", "enterprise", "beta", "admin",
   "gold", "constructor"}

\* DECIMAL(10,2) keeps two decimals, DECIMAL(10,6) six.
MicroPerCent == 10000

\* A value assigned to a DECIMAL(10,2) column is rounded to two decimals
\* (numeric rounding: half away from zero; all amounts here are >= 0).
ToDecimal2(micro) ==
  IF micro = NULL THEN NULL ELSE (micro + (MicroPerCent \div 2)) \div MicroPerCent

\* A DECIMAL(10,2) value read back as a JavaScript number.
FromDecimal2(cents) == IF cents = NULL THEN NULL ELSE cents * MicroPerCent

\* getUserApiKey / getUserSubscriptionTier returning no row (data = null).
NoRow ==
  [id |-> 0, user_id |-> 0, openrouter_key_id |-> 0, monthly_limit |-> NULL,
   current_usage |-> 0, usage_reset_date |-> 0, created_at |-> 0,
   status |-> "none"]

Max(S) == CHOOSE x \in S : \A y \in S : y <= x

\* SUM(cost_usd) over the rows of a bag of usage logs that pass Test.
RECURSIVE SumOver(_, _)
SumOver(rows, logs) ==
  IF rows = {} THEN 0
  ELSE LET r == CHOOSE x \in rows : TRUE
       IN r.cost_usd * CopiesIn(r, logs) + SumOver(rows \ {r}, logs)

SumCost(logs, Test(_)) ==
  SumOver({r \in BagToSet(logs) : Test(r)}, logs)

VARIABLES
  user_api_keys,      \* table user_api_keys: sequence of rows, id = position
  api_usage_logs,     \* table api_usage_logs: a bag of rows (their ids are
                      \* random and nothing orders them but created_at)
  openRouterKeys,     \* keys held by the provider, id = position
  today,              \* DATE_TRUNC('month', CURRENT_DATE) as a month number
  proc,               \* the requests / scheduled runs in flight
  resetLog,           \* the reset_monthly_usage calls of the latest month with
                      \* one: the month, how many calls, and the last result
  completedRotations, \* <<userId, old openrouter_key_id>> of finished rotations
  requestCounts,      \* auth.js: Map from client key to {count, resetTime}
  now,                \* Date.now(), in units of a third of windowMs
  limiterRes,         \* what rateLimiter did with the latest request
  admitted,           \* per client key: requests passed on to next() since
                      \* the key's window was last started
  isRunning,          \* the isRunning field of the two background services
  cronTasks,          \* tasks registered with cron.schedule, per callback
  server,             \* the process: up, closing (shutdown begun), exited
  fired               \* which scheduled callbacks ran, and in which situation

\* The store, the provider and the requests in flight.
storeVars ==
  <<user_api_keys, api_usage_logs, openRouterKeys, today, proc, resetLog,
    completedRotations>>

\* The rate limiter of src/middleware/auth.js.
limiterVars == <<requestCounts, now, limiterRes, admitted>>

\* The background services of src/server.js.
backgroundVars == <<isRunning, cronTasks, server, fired>>

serverVars == <<limiterVars, backgroundVars>>

vars == <<storeVars, limiterVars, backgroundVars>>

\* ------------------------------------------------------- SupabaseService

RowIds == 1..Len(user_api_keys)

\* WHERE user_id = userId AND status = 'active'
ActiveIds(userId) ==
  {i \in RowIds : /\ user_api_keys[i].user_id = userId
                  /\ user_api_keys[i].status = "active"}

\* select * ... eq(user_id) eq(status, active) order(created_at desc) limit(1)
\* single(): the newest active row; PGRST116 (no rows) is let through as null.
getUserApiKey(userId) ==
  IF ActiveIds(userId) = {} THEN NoRow
  ELSE user_api_keys[Max(ActiveIds(userId))]

\* A number as JSON.stringify sends it in a request body: a property whose
\* value is undefined or a function is left out, and the column (or the
\* provider) then takes its default, which is NULL / no limit.
JsonNumber(v) == IF v \in {Undefined, JsFunction} THEN NULL ELSE v

\* The row insert(...) stores: the given columns, the others by DEFAULT.
NewRow(userId, openrouterKeyId, monthlyLimit) ==
  [id |-> Len(user_api_keys) + 1,
   user_id |-> userId,
   openrouter_key_id |-> openrouterKeyId,
   monthly_limit |-> ToDecimal2(JsonNumber(monthlyLimit)),
   current_usage |-> 0,
   usage_reset_date |-> today,
   created_at |-> today,
   status |-> "active"]

\* CONSTRAINT positive_limit, positive_usage of user_api_keys.
RowConstraints(row) ==
  /\ row.monthly_limit = NULL \/ row.monthly_limit > 0
  /\ row.current_usage >= 0

\* Faulty variant: the insert replaces the latest row the user has.
createUserApiKeyUpsert(userId, openrouterKeyId, monthlyLimit) ==
  LET own == {i \in RowIds : user_api_keys[i].user_id = userId}
  IN IF own = {}
     THEN Append(user_api_keys, NewRow(userId, openrouterKeyId, monthlyLimit))
     ELSE [user_api_keys EXCEPT ![Max(own)] =
             [NewRow(userId, openrouterKeyId, monthlyLimit)
                EXCEPT !.id = Max(own)]]

\* createUserApiKey: the table after the insert.
createUserApiKey(userId, openrouterKeyId, monthlyLimit) ==
  Append(user_api_keys, NewRow(userId, openrouterKeyId, monthlyLimit))

\* update({status: 'inactive'}) eq(user_id) eq(status, active) select()
\* single(): succeeds only when exactly one row was updated; with none, or
\* with several (the request is then rolled back), it throws.
\* Faulty variant: an update that changes no row is not an error.
deactivateNeverThrows(userId) == TRUE

deactivateSucceeds(userId) == Cardinality(ActiveIds(userId)) = 1

\* Faulty variant: the update changes no row.
deactivateNothing(userId) == user_api_keys

deactivateUserApiKey(userId) ==
  [i \in RowIds |->
     IF i \in ActiveIds(userId)
     THEN [user_api_keys[i] EXCEPT !.status = "inactive"]
     ELSE user_api_keys[i]]

\* select(*) eq(status, active) order(created_at desc): all active rows,
\* newest first, as the list of their ids.
RECURSIVE ActiveDesc(_)
ActiveDesc(n) ==
  IF n = 0 THEN <<>>
  ELSE IF user_api_keys[n].status = "active"
       THEN <<n>> \o ActiveDesc(n - 1)
       ELSE ActiveDesc(n - 1)

getAllUsersWithKeys == ActiveDesc(Len(user_api_keys))

\* ------------------------------------------------------ OpenRouterService

\* JavaScript truthiness of a number-or-null value.
Truthy(v) == v \notin {NULL, Undefined, 0}

\* createKey: the body carries limit only if (limit); the provider answers
\* with a new key, whose id is the next position.
createKey(limit) ==
  Append(openRouterKeys,
         [limit |-> IF Truthy(limit) THEN JsonNumber(limit) ELSE NULL,
          deleted |-> FALSE])

\* deleteKey: DELETE /api/v1/keys/:id; a key that is not there is an error.
deleteKeySucceeds(keyId) ==
  /\ keyId \in 1..Len(openRouterKeys)
  /\ ~openRouterKeys[keyId].deleted

deleteKey(keyId) == [openRouterKeys EXCEPT ![keyId].deleted = TRUE]

\* The secret (key.key) of the key object the provider answers a create with:
\* an opaque string, which is no key id; here a number outside the ids.
SecretOf(keyId) == 1000 + keyId

\* ------------------------------------------------------------ keys routes

\* limits[subscriptionPlan]: the tier table, and behind it what every
\* object literal inherits.
limits(subscriptionPlan) ==
  CASE subscriptionPlan = "free" -> 10000000
    [] subscriptionPlan = "standard" -> 50000000
    [] subscriptionPlan = "micro" -> 100000000
    [] subscriptionPlan = "operator" -> 250000000
    [] subscriptionPlan = "enterprise" -> 500000000
    [] subscriptionPlan = "beta" -> 1000000000
    [] subscriptionPlan = "admin" -> NULL
    [] subscriptionPlan = "future4200" -> NULL
    [] subscriptionPlan \in {"constructor", "toString", "valueOf"} -> JsFunction
    [] OTHER -> Undefined

\* a || b for these values (a function is truthy).
JsOr(a, b) == IF Truthy(a) THEN a ELSE b

getDefaultMonthlyLimit(subscriptionPlan) ==
  JsOr(limits(subscriptionPlan), 10000000)

\* subscription?.plan || 'free'
PlanOrFree(plan) == IF plan = "" THEN "free" ELSE plan

\* const finalLimit = monthlyLimit || defaultLimit
FinalLimit(monthlyLimit, plan) ==
  JsOr(monthlyLimit, getDefaultMonthlyLimit(PlanOrFree(plan)))

\* ---------------------------------------------------------------- requests

NoResp ==
  [status |-> 0, row |-> 0, oldKey |-> 0, key |-> 0, secret |-> 0,
   count |-> 0, withinLimit |-> FALSE, error |-> ""]

IdleProc ==
  [pc |-> "idle", op |-> "", userId |-> 0, deleteOld |-> FALSE,
   monthlyLimit |-> Undefined, plan |-> "", finalLimit |-> Undefined,
   currentKey |-> NoRow, newOpenRouterKey |-> 0, newUserApiKey |-> 0,
   queue |-> <<>>, scanned |-> <<>>, usersAtScan |-> {}, rowsAtScan |-> 0,
   results |-> <<>>, alerts |-> <<>>, report |-> <<>>,
   operation |-> "", keyIds |-> <<>>, calls |-> <<>>,
   cycle |-> -1, staleAtStart |-> {}, updated |-> {},
   resp |-> NoResp]

\* The handler has answered (res.json(...), or the service method returned).
Done(p, resp) == [proc[p] EXCEPT !.pc = "done", !.resp = resp]

Fail(status, error) == [NoResp EXCEPT !.status = status, !.error = error]

\* Faulty variant: a notification that is not delivered fails the pass.
NotifiedOrFailed(p, delivered) ==
  IF delivered THEN Done(p, [NoResp EXCEPT !.status = 200])
  ELSE [Done(p, Fail(500, "notifier")) EXCEPT
          !.results = <<>>, !.alerts = <<>>, !.report = <<>>]

\* What a pass has when its notification is over, delivered or not (a non-2xx
\* answer and a thrown error both end in the catch of the send function,
\* which logs): the pass returns what it had computed.
Notified(p, delivered) == Done(p, [NoResp EXCEPT !.status = 200])

Free(p) == proc[p].pc \in {"idle", "done"}

\* Keys still to be requested from the provider by the handlers in flight.
Pending(p) ==
  CASE proc[p].pc \in {"cu_limit", "cu_provider", "ru_deactivate", "ru_provider"} -> 1
    [] proc[p].pc \in {"ra_get", "ra_deactivate", "ra_provider"} -> Len(proc[p].queue)
    [] proc[p].pc = "ra_store" -> Len(proc[p].queue) - 1
    [] OTHER -> 0

RECURSIVE SumPending(_)
SumPending(S) ==
  IF S = {} THEN 0
  ELSE LET p == CHOOSE q \in S : TRUE IN Pending(p) + SumPending(S \ {p})

\* A handler that may create n more keys starts only while the bound allows.
Room(n, maxKeys) == Len(openRouterKeys) + SumPending(Procs) + n <= maxKeys

\* req.ip || 'unknown' of the requests.
Clients == {"10.0.0.1", "unknown"}

\* requestCounts.get(key) of a key the Map does not hold.
NoEntry == [count |-> 0, resetTime |-> -1]

NoResponse == [key |-> "", status |-> 0, remaining |-> 0]

Services == {"usageMonitoringService", "keyRotationService"}

\* The functions the cron.schedule calls of the services and of server.js run.
Callbacks ==
  {"checkUsageLimits", "generateDailyReport", "resetMonthlyUsage",
   "rotateAllUserKeys", "serverResetMonthlyUsage"}

NotFired == [callback |-> "", isRunning |-> FALSE, server |-> ""]

Init ==
  /\ user_api_keys = <<>>
  /\ api_usage_logs = EmptyBag
  /\ openRouterKeys = <<>>
  /\ today = 0
  /\ proc = [p \in Procs |-> IdleProc]
  /\ resetLog = [cycle |-> 0, runs |-> 0, count |-> 0]
  /\ completedRotations = {}
  /\ requestCounts = [key \in Clients |-> NoEntry]
  /\ now = 0
  /\ limiterRes = NoResponse
  /\ admitted = [key \in Clients |-> 0]
  /\ isRunning = [service \in Services |-> FALSE]
  /\ cronTasks = [callback \in Callbacks |-> 0]
  /\ server = "up"
  /\ fired = NotFired

\* ---- POST /api/keys/create-user

\* Faulty variant: the conflict is reported without the existing row.
ConflictWithoutRecord(existingKey) == Fail(409, "conflict")

\* res.status(409).json({success: false, error: ..., data: existingKey})
Conflict(existingKey) ==
  [Fail(409, "conflict") EXCEPT !.row = existingKey.id]

\* const existingKey = await getUserApiKey(userId); if (existingKey) 409
CreateUserCheck(p, userId, monthlyLimit) ==
  /\ Free(p)
  /\ LET existingKey == getUserApiKey(userId)
         start == [IdleProc EXCEPT !.op = "create-user", !.userId = userId,
                                   !.monthlyLimit = monthlyLimit]
     IN proc' = [proc EXCEPT ![p] =
                   IF existingKey # NoRow
                   THEN [start EXCEPT !.pc = "done",
                                      !.resp = Conflict(existingKey)]
                   ELSE [start EXCEPT !.pc = "cu_limit"]]
  /\ UNCHANGED <<user_api_keys, api_usage_logs, openRouterKeys, today,
                 resetLog, completedRotations>>
  /\ UNCHANGED serverVars

\* const subscription = await getUserSubscriptionTier(userId);
\* defaultLimit, finalLimit
CreateUserLimit(p, plan) ==
  /\ proc[p].pc = "cu_limit"
  /\ proc' = [proc EXCEPT ![p].pc = "cu_provider", ![p].plan = plan,
                ![p].finalLimit = FinalLimit(proc[p].monthlyLimit, plan)]
  /\ UNCHANGED <<user_api_keys, api_usage_logs, openRouterKeys, today,
                 resetLog, completedRotations>>
  /\ UNCHANGED serverVars

\* Faulty variant: the error of the provider is swallowed and the handler
\* goes on with an empty key.
CreateUserKeyDefault(p) ==
  [proc[p] EXCEPT !.pc = "cu_store", !.newOpenRouterKey = 0]

\* createKey and createUserKey log the error of makeRequest and throw it
\* again; the catch of the route answers 500 with its message.
CreateUserKeyFailed(p) == Done(p, Fail(500, "provider"))

\* const openRouterKey = await openRouterService.createUserKey(userId, finalLimit)
CreateUserProvider(p, ok) ==
  /\ proc[p].pc = "cu_provider"
  /\ IF ok
     THEN /\ openRouterKeys' = createKey(proc[p].finalLimit)
          /\ proc' = [proc EXCEPT ![p].pc = "cu_store",
                        ![p].newOpenRouterKey = Len(openRouterKeys) + 1]
     ELSE /\ openRouterKeys' = openRouterKeys
          /\ proc' = [proc EXCEPT ![p] = CreateUserKeyFailed(p)]
  /\ UNCHANGED <<user_api_keys, api_usage_logs, today, resetLog,
                 completedRotations>>
  /\ UNCHANGED serverVars

\* const userApiKey = await createUserApiKey(...); res.status(201)
CreateUserStore(p, ok) ==
  /\ proc[p].pc = "cu_store"
  /\ LET row == NewRow(proc[p].userId, proc[p].newOpenRouterKey,
                       proc[p].finalLimit)
     IN IF ok /\ RowConstraints(row)
        THEN /\ user_api_keys' =
                  createUserApiKey(proc[p].userId, proc[p].newOpenRouterKey,
                                   proc[p].finalLimit)
             /\ proc' = [proc EXCEPT ![p] =
                           Done(p, [NoResp EXCEPT !.status = 201,
                                      !.row = row.id,
                                      !.key = proc[p].newOpenRouterKey,
                                      !.secret =
                                        SecretOf(proc[p].newOpenRouterKey)])]
        ELSE /\ user_api_keys' = user_api_keys
             /\ proc' = [proc EXCEPT ![p] = Done(p, Fail(500, "store"))]
  /\ UNCHANGED <<api_usage_logs, openRouterKeys, today, resetLog,
                 completedRotations>>
  /\ UNCHANGED serverVars

\* ---- rotation: POST /api/keys/rotate-user and KeyRotationService

\* Faulty variant: the new row is given the old key's id.
RotateStoreArgsOldId(currentKey, newOpenRouterKey) ==
  [openrouterKeyId |-> currentKey.openrouter_key_id,
   monthlyLimit |-> FromDecimal2(currentKey.monthly_limit)]

\* Faulty variant: the new row is given the free-tier limit, not the old one.
RotateStoreArgsFreeLimit(currentKey, newOpenRouterKey) ==
  [openrouterKeyId |-> newOpenRouterKey,
   monthlyLimit |-> getDefaultMonthlyLimit("free")]

\* Faulty variant: the new row is given the new key's secret.
RotateStoreArgsSecret(currentKey, newOpenRouterKey) ==
  [openrouterKeyId |-> SecretOf(newOpenRouterKey),
   monthlyLimit |-> FromDecimal2(currentKey.monthly_limit)]

\* The arguments both rotations give createUserApiKey for the new row:
\* (userId, newOpenRouterKey.id, newOpenRouterKey.name, currentKey.monthly_limit)
RotateStoreArgs(currentKey, newOpenRouterKey) ==
  [openrouterKeyId |-> newOpenRouterKey,
   monthlyLimit |-> FromDecimal2(currentKey.monthly_limit)]

\* The limit both rotations give createUserKey: currentKey.monthly_limit
RotateProviderLimit(currentKey) == FromDecimal2(currentKey.monthly_limit)

RotatedRow(p) ==
  LET args == RotateStoreArgs(proc[p].currentKey, proc[p].newOpenRouterKey)
  IN NewRow(proc[p].userId, args.openrouterKeyId, args.monthlyLimit)

RotatedTable(p) ==
  LET args == RotateStoreArgs(proc[p].currentKey, proc[p].newOpenRouterKey)
  IN createUserApiKey(proc[p].userId, args.openrouterKeyId, args.monthlyLimit)

\* What a finished rotation reports: oldKey, newKey and, from the route only,
\* the new key's secret.
Rotated(p, newUserApiKey, withSecret) ==
  [NoResp EXCEPT !.status = 200,
                 !.oldKey = proc[p].currentKey.id,
                 !.row = newUserApiKey,
                 !.key = IF withSecret THEN proc[p].newOpenRouterKey ELSE 0,
                 !.secret = IF withSecret
                            THEN SecretOf(proc[p].newOpenRouterKey) ELSE 0]

\* Faulty variant: the rotation goes on without a current key.
NoCurrentKeyIgnored(currentKey) == FALSE

\* if (!currentKey)
NoCurrentKey(currentKey) == currentKey = NoRow

\* const currentKey = await getUserApiKey(userId); if (!currentKey) 404
RotateUserGet(p, userId, deleteOld) ==
  /\ Free(p)
  /\ LET currentKey == getUserApiKey(userId)
         start == [IdleProc EXCEPT !.op = "rotate-user", !.userId = userId,
                                   !.deleteOld = deleteOld,
                                   !.currentKey = currentKey]
     IN proc' = [proc EXCEPT ![p] =
                   IF NoCurrentKey(currentKey)
                   THEN [start EXCEPT !.pc = "done",
                                      !.resp = Fail(404, "not found")]
                   ELSE [start EXCEPT !.pc = "ru_deactivate"]]
  /\ UNCHANGED <<user_api_keys, api_usage_logs, openRouterKeys, today,
                 resetLog, completedRotations>>
  /\ UNCHANGED serverVars

\* await supabaseService.deactivateUserApiKey(userId)
RotateUserDeactivate(p) ==
  /\ proc[p].pc = "ru_deactivate"
  /\ IF deactivateSucceeds(proc[p].userId)
     THEN /\ user_api_keys' = deactivateUserApiKey(proc[p].userId)
          /\ proc' = [proc EXCEPT ![p].pc = "ru_provider"]
     ELSE /\ user_api_keys' = user_api_keys
          /\ proc' = [proc EXCEPT ![p] = Done(p, Fail(500, "store"))]
  /\ UNCHANGED <<api_usage_logs, openRouterKeys, today, resetLog,
                 completedRotations>>
  /\ UNCHANGED serverVars

\* const newOpenRouterKey = await createUserKey(userId, currentKey.monthly_limit)
RotateUserProvider(p, ok) ==
  /\ proc[p].pc = "ru_provider"
  /\ IF ok
     THEN /\ openRouterKeys' = createKey(RotateProviderLimit(proc[p].currentKey))
          /\ proc' = [proc EXCEPT ![p].pc = "ru_store",
                        ![p].newOpenRouterKey = Len(openRouterKeys) + 1]
     ELSE /\ openRouterKeys' = openRouterKeys
          /\ proc' = [proc EXCEPT ![p] = Done(p, Fail(500, "provider"))]
  /\ UNCHANGED <<user_api_keys, api_usage_logs, today, resetLog,
                 completedRotations>>
  /\ UNCHANGED serverVars

\* const newUserApiKey = await createUserApiKey(...); then, unless deleteOld,
\* res.json({oldKey, newKey})
RotateUserStore(p, ok) ==
  /\ proc[p].pc = "ru_store"
  /\ IF ok /\ RowConstraints(RotatedRow(p))
     THEN /\ user_api_keys' = RotatedTable(p)
          /\ IF proc[p].deleteOld
             THEN /\ proc' = [proc EXCEPT ![p].pc = "ru_delete",
                                ![p].newUserApiKey = RotatedRow(p).id]
                  /\ UNCHANGED completedRotations
             ELSE /\ proc' = [proc EXCEPT ![p] =
                                [Done(p, Rotated(p, RotatedRow(p).id, TRUE))
                                   EXCEPT !.newUserApiKey = RotatedRow(p).id]]
                  /\ completedRotations' = completedRotations \cup
                       {<<proc[p].userId, proc[p].currentKey.openrouter_key_id>>}
     ELSE /\ user_api_keys' = user_api_keys
          /\ proc' = [proc EXCEPT ![p] = Done(p, Fail(500, "store"))]
          /\ UNCHANGED completedRotations
  /\ UNCHANGED <<api_usage_logs, openRouterKeys, today, resetLog>>
  /\ UNCHANGED serverVars

\* Faulty variant: a failed delete of the old key fails the rotation.
AfterDeleteOldRethrown(p, deleted) ==
  IF deleted THEN Rotated(p, proc[p].newUserApiKey, TRUE)
  ELSE Fail(500, "provider")

\* What the rotation answers after the attempt to delete the old key: the
\* catch around deleteKey only warns, so the same whether it was deleted.
AfterDeleteOld(p, deleted) == Rotated(p, proc[p].newUserApiKey, TRUE)

\* if (deleteOld) try { await deleteKey(currentKey.openrouter_key_id) }
\* catch { logger.warn }; res.json({oldKey, newKey})
RotateUserDelete(p, ok) ==
  /\ proc[p].pc = "ru_delete"
  /\ openRouterKeys' =
       IF ok /\ deleteKeySucceeds(proc[p].currentKey.openrouter_key_id)
       THEN deleteKey(proc[p].currentKey.openrouter_key_id)
       ELSE openRouterKeys
  /\ proc' = [proc EXCEPT ![p] =
                Done(p, AfterDeleteOld(p,
                          ok /\ deleteKeySucceeds(
                                  proc[p].currentKey.openrouter_key_id)))]
  /\ completedRotations' = completedRotations \cup
       {<<proc[p].userId, proc[p].currentKey.openrouter_key_id>>}
  /\ UNCHANGED <<user_api_keys, api_usage_logs, today, resetLog>>
  /\ UNCHANGED serverVars

\* ---- KeyRotationService.rotateAllUserKeys

UserIdsOf(ids) == [i \in 1..Len(ids) |-> user_api_keys[ids[i]].user_id]

\* const usersWithKeys = await getAllUsersWithKeys(); const results = []
RotateAllScan(p) ==
  /\ Free(p)
  /\ LET usersWithKeys == UserIdsOf(getAllUsersWithKeys)
     IN proc' = [proc EXCEPT ![p] =
                   [IdleProc EXCEPT
                      !.op = "rotate-all",
                      !.queue = usersWithKeys,
                      !.scanned = usersWithKeys,
                      !.usersAtScan = {u \in Users : ActiveIds(u) # {}},
                      !.rowsAtScan = Len(user_api_keys),
                      !.pc = IF usersWithKeys = <<>> THEN "ra_notify"
                             ELSE "ra_get"]]
  /\ UNCHANGED <<user_api_keys, api_usage_logs, openRouterKeys, today,
                 resetLog, completedRotations>>
  /\ UNCHANGED <<limiterVars, isRunning, cronTasks, server>>

\* results.push({userId, success}) in the try or in the catch of the loop
\* body, which then goes on with the next userKey.
\* Faulty variant: every member is pushed as a success.
pushResultAsSuccess(results, userId, success, error) ==
  Append(results, [userId |-> userId, success |-> TRUE, error |-> error])

pushResult(results, userId, success, error) ==
  Append(results, [userId |-> userId, success |-> success, error |-> error])

NextMember(p, success, error) ==
  [proc[p] EXCEPT
     !.results = pushResult(proc[p].results, Head(proc[p].queue), success,
                            error),
     !.queue = Tail(proc[p].queue),
     !.pc = IF Tail(proc[p].queue) = <<>> THEN "ra_notify" ELSE "ra_get"]

\* rotateUserKey(userKey.user_id, false): getUserApiKey, throw if none
RotateKeyGet(p) ==
  /\ proc[p].pc = "ra_get"
  /\ LET userId == Head(proc[p].queue)
         currentKey == getUserApiKey(userId)
     IN proc' = [proc EXCEPT ![p] =
                   IF NoCurrentKey(currentKey)
                   THEN NextMember(p, FALSE, "not found")
                   ELSE [proc[p] EXCEPT !.pc = "ra_deactivate",
                                        !.userId = userId,
                                        !.currentKey = currentKey,
                                        !.newOpenRouterKey = 0]]
  /\ UNCHANGED <<user_api_keys, api_usage_logs, openRouterKeys, today,
                 resetLog, completedRotations>>
  /\ UNCHANGED serverVars

\* rotateUserKey: await supabaseService.deactivateUserApiKey(userId)
RotateKeyDeactivate(p) ==
  /\ proc[p].pc = "ra_deactivate"
  /\ IF deactivateSucceeds(proc[p].userId)
     THEN /\ user_api_keys' = deactivateUserApiKey(proc[p].userId)
          /\ proc' = [proc EXCEPT ![p].pc = "ra_provider"]
     ELSE /\ user_api_keys' = user_api_keys
          /\ proc' = [proc EXCEPT ![p] = NextMember(p, FALSE, "store")]
  /\ UNCHANGED <<api_usage_logs, openRouterKeys, today, resetLog,
                 completedRotations>>
  /\ UNCHANGED serverVars

\* rotateUserKey: await createUserKey(userId, currentKey.monthly_limit)
RotateKeyProvider(p, ok) ==
  /\ proc[p].pc = "ra_provider"
  /\ IF ok
     THEN /\ openRouterKeys' = createKey(RotateProviderLimit(proc[p].currentKey))
          /\ proc' = [proc EXCEPT ![p].pc = "ra_store",
                        ![p].newOpenRouterKey = Len(openRouterKeys) + 1]
     ELSE /\ openRouterKeys' = openRouterKeys
          /\ proc' = [proc EXCEPT ![p] = NextMember(p, FALSE, "provider")]
  /\ UNCHANGED <<user_api_keys, api_usage_logs, today, resetLog,
                 completedRotations>>
  /\ UNCHANGED serverVars

\* Faulty variant: rotateUserKey returns the new provider key as well.
RotateUserKeyReturnWithSecret(p) == Rotated(p, RotatedRow(p).id, TRUE)

\* rotateUserKey: return {oldKey: currentKey, newKey: newUserApiKey}
RotateUserKeyReturn(p) == Rotated(p, RotatedRow(p).id, FALSE)

\* rotateUserKey: await createUserApiKey(...); deleteOld is false;
\* return {oldKey, newKey}, which rotateAllUserKeys drops: resp holds what
\* the latest rotateUserKey call returned until the pass itself returns.
RotateKeyStore(p, ok) ==
  /\ proc[p].pc = "ra_store"
  /\ IF ok /\ RowConstraints(RotatedRow(p))
     THEN /\ user_api_keys' = RotatedTable(p)
          /\ proc' = [proc EXCEPT ![p] =
                        [NextMember(p, TRUE, "")
                           EXCEPT !.resp = RotateUserKeyReturn(p)]]
          /\ completedRotations' = completedRotations \cup
               {<<proc[p].userId, proc[p].currentKey.openrouter_key_id>>}
     ELSE /\ user_api_keys' = user_api_keys
          /\ proc' = [proc EXCEPT ![p] = NextMember(p, FALSE, "store")]
          /\ UNCHANGED completedRotations
  /\ UNCHANGED <<api_usage_logs, openRouterKeys, today, resetLog>>
  /\ UNCHANGED serverVars

\* await this.sendRotationNotification(results) (its errors are caught and
\* logged); return results
RotateAllNotify(p, delivered) ==
  /\ proc[p].pc = "ra_notify"
  /\ proc' = [proc EXCEPT ![p] = Notified(p, delivered)]
  /\ UNCHANGED <<user_api_keys, api_usage_logs, openRouterKeys, today,
                 resetLog, completedRotations>>
  /\ UNCHANGED serverVars

\* ---- single store calls

\* deactivateUserApiKey(userId) on its own
DeactivateUser(p, userId) ==
  /\ Free(p)
  /\ LET start == [IdleProc EXCEPT !.op = "deactivate", !.userId = userId,
                                   !.currentKey = getUserApiKey(userId),
                                   !.pc = "done"]
     IN IF deactivateSucceeds(userId)
        THEN /\ user_api_keys' = deactivateUserApiKey(userId)
             /\ proc' = [proc EXCEPT ![p] =
                           [start EXCEPT !.resp = [NoResp EXCEPT
                              !.status = 200,
                              !.row = Max(ActiveIds(userId))]]]
        ELSE /\ user_api_keys' = user_api_keys
             /\ proc' = [proc EXCEPT ![p] =
                           [start EXCEPT !.resp = Fail(500, "store")]]
  /\ UNCHANGED <<api_usage_logs, openRouterKeys, today, resetLog,
                 completedRotations>>
  /\ UNCHANGED serverVars

\* Faulty variant: the trigger assigns the cost instead of adding it.
update_user_usage_assign(apiKeyId, costUsd) ==
  [user_api_keys EXCEPT ![apiKeyId].current_usage = ToDecimal2(costUsd)]

\* The trigger on_api_usage_log_insert: update_user_usage() adds NEW.cost_usd
\* to current_usage (a DECIMAL(10,2) column) of the row WHERE id = api_key_id.
update_user_usage(apiKeyId, costUsd) ==
  [user_api_keys EXCEPT ![apiKeyId].current_usage =
     ToDecimal2(FromDecimal2(user_api_keys[apiKeyId].current_usage) + costUsd)]

\* POST /api/usage/log: logApiUsage inserts the row (api_key_id must refer to
\* a row of user_api_keys) and the trigger runs in the same statement.
LogUsage(p, userId, apiKeyId, costUsd) ==
  /\ Free(p)
  /\ BagCardinality(api_usage_logs) < MaxLogs
  /\ LET start == [IdleProc EXCEPT !.op = "log", !.userId = userId,
                                   !.pc = "done"]
     IN IF apiKeyId \in RowIds
        THEN /\ api_usage_logs' =
                  api_usage_logs (+)
                    SetToBag({[user_id |-> userId, api_key_id |-> apiKeyId,
                               cost_usd |-> costUsd, created_at |-> today]})
             /\ user_api_keys' = update_user_usage(apiKeyId, costUsd)
             /\ proc' = [proc EXCEPT ![p] =
                           [start EXCEPT !.resp = [NoResp EXCEPT
                              !.status = 201, !.row = apiKeyId]]]
        ELSE /\ UNCHANGED <<api_usage_logs, user_api_keys>>
             /\ proc' = [proc EXCEPT ![p] =
                           [start EXCEPT !.resp = Fail(500, "store")]]
  /\ UNCHANGED <<openRouterKeys, today, resetLog, completedRotations>>
  /\ UNCHANGED serverVars

\* Faulty variant: <= in place of <.
IsStaleOrCurrent(row, cycleStart) == row.usage_reset_date <= cycleStart

\* Faulty variant: the reset is restricted to active rows.
IsStaleActive(row, cycleStart) ==
  row.usage_reset_date < cycleStart /\ row.status = "active"

\* WHERE usage_reset_date < DATE_TRUNC('month', CURRENT_DATE)
IsStale(row, cycleStart) == row.usage_reset_date < cycleStart

StaleIds == {i \in RowIds : IsStale(user_api_keys[i], today)}

\* reset_monthly_usage(): one UPDATE, and its ROW_COUNT
reset_monthly_usage ==
  [i \in RowIds |->
     IF i \in StaleIds
     THEN [user_api_keys[i] EXCEPT !.current_usage = 0,
                                   !.usage_reset_date = today]
     ELSE user_api_keys[i]]

\* Calls of reset_monthly_usage made so far in the current month.
ResetRuns == IF resetLog.cycle = today THEN resetLog.runs ELSE 0

\* resetAllMonthlyUsage(), from POST /api/admin/reset-usage or from the
\* scheduled monthly pass
ResetUsage(p) ==
  /\ Free(p)
  /\ ResetRuns < MaxResets
  /\ user_api_keys' = reset_monthly_usage
  /\ resetLog' = [cycle |-> today, runs |-> ResetRuns + 1,
                  count |-> Cardinality(StaleIds)]
  /\ proc' = [proc EXCEPT ![p] =
                [IdleProc EXCEPT !.op = "reset", !.pc = "done",
                   !.resp = [NoResp EXCEPT !.status = 200,
                               !.count = Cardinality(StaleIds)]]]
  /\ UNCHANGED <<api_usage_logs, openRouterKeys, today, completedRotations>>
  /\ UNCHANGED <<limiterVars, isRunning, cronTasks, server>>

\* reset_monthly_usage() row by row, for calls that overlap.  The UPDATE
\* visits the rows its snapshot holds in the table's order; a row another
\* UPDATE has changed and not yet committed makes it wait, and after the wait
\* the WHERE clause is evaluated again on the row as committed.

\* Rows changed by the calls of other clients that have not committed yet.
LockedByOthers(p) ==
  UNION {proc[q].updated : q \in {r \in Procs \ {p} : proc[r].pc = "rs_row"}}

RECURSIVE Ascending(_)
Ascending(S) ==
  IF S = {} THEN <<>> ELSE Append(Ascending(S \ {Max(S)}), Max(S))

\* The call starts: its snapshot holds the committed rows, so the rows another
\* call is resetting are stale in it.
ResetBegin(p) ==
  /\ Free(p)
  /\ proc' = [proc EXCEPT ![p] =
                [IdleProc EXCEPT !.op = "reset", !.pc = "rs_row",
                                 !.cycle = today,
                                 !.queue = Ascending(RowIds),
                                 !.staleAtStart =
                                   StaleIds \cup LockedByOthers(p)]]
  /\ UNCHANGED <<user_api_keys, api_usage_logs, openRouterKeys, today,
                 resetLog, completedRotations>>
  /\ UNCHANGED serverVars

\* Faulty variant: after the wait the row is judged by the snapshot.
StaleInSnapshot(p, i) == i \in proc[p].staleAtStart

\* The WHERE clause on the committed row.
StillStale(p, i) == IsStale(user_api_keys[i], proc[p].cycle)

\* The UPDATE reaches its next row.
ResetRow(p) ==
  /\ proc[p].pc = "rs_row"
  /\ proc[p].queue # <<>>
  /\ LET i == Head(proc[p].queue)
     IN /\ i \notin LockedByOthers(p)
        /\ IF StillStale(p, i)
           THEN /\ user_api_keys' =
                     [user_api_keys EXCEPT
                        ![i].current_usage = 0,
                        ![i].usage_reset_date = proc[p].cycle]
                /\ proc' = [proc EXCEPT ![p].queue = Tail(proc[p].queue),
                                        ![p].updated = @ \cup {i}]
           ELSE /\ user_api_keys' = user_api_keys
                /\ proc' = [proc EXCEPT ![p].queue = Tail(proc[p].queue)]
  /\ UNCHANGED <<api_usage_logs, openRouterKeys, today, resetLog,
                 completedRotations>>
  /\ UNCHANGED serverVars

\* GET DIAGNOSTICS reset_count = ROW_COUNT; RETURN reset_count; commit
ResetEnd(p) ==
  /\ proc[p].pc = "rs_row"
  /\ proc[p].queue = <<>>
  /\ proc' = [proc EXCEPT ![p] =
                Done(p, [NoResp EXCEPT
                           !.status = 200,
                           !.count = Cardinality(proc[p].updated)])]
  /\ UNCHANGED <<user_api_keys, api_usage_logs, openRouterKeys, today,
                 resetLog, completedRotations>>
  /\ UNCHANGED serverVars

\* The calendar passes the first day of the next month.
AdvanceMonth ==
  /\ today < MaxCycle
  /\ today' = today + 1
  /\ UNCHANGED <<user_api_keys, api_usage_logs, openRouterKeys, proc,
                 resetLog, completedRotations>>
  /\ UNCHANGED serverVars

\* ---- GET /api/usage/:userId/limit

\* check_usage_limit(user_uuid): SELECT monthly_limit, current_usage INTO ...
\* of the newest active row (both stay NULL when there is none); TRUE when the
\* limit IS NULL, else user_usage < user_limit.
check_usage_limit(userId) ==
  LET row == getUserApiKey(userId)
  IN IF row = NoRow \/ row.monthly_limit = NULL
     THEN TRUE
     ELSE row.current_usage < row.monthly_limit

\* const withinLimit = await supabaseService.checkUserUsageLimit(userId)
CheckLimitRpc(p, userId, ok) ==
  /\ Free(p)
  /\ LET start == [IdleProc EXCEPT !.op = "check-limit", !.userId = userId]
     IN proc' = [proc EXCEPT ![p] =
                   IF ok
                   THEN [start EXCEPT !.pc = "cl_get",
                           !.resp = [NoResp EXCEPT
                                       !.withinLimit = check_usage_limit(userId)]]
                   ELSE [start EXCEPT !.pc = "done",
                                      !.resp = Fail(500, "store")]]
  /\ UNCHANGED <<user_api_keys, api_usage_logs, openRouterKeys, today,
                 resetLog, completedRotations>>
  /\ UNCHANGED serverVars

\* const userApiKey = await getUserApiKey(userId); res.json({withinLimit,
\* monthlyLimit: userApiKey?.monthly_limit, currentUsage: ..., ...})
CheckLimitGet(p, ok) ==
  /\ proc[p].pc = "cl_get"
  /\ proc' = [proc EXCEPT ![p] =
                IF ok
                THEN [proc[p] EXCEPT
                        !.pc = "done",
                        !.currentKey = getUserApiKey(proc[p].userId),
                        !.resp = [proc[p].resp EXCEPT
                                    !.status = 200,
                                    !.row = getUserApiKey(proc[p].userId).id]]
                ELSE Done(p, Fail(500, "store"))]
  /\ UNCHANGED <<user_api_keys, api_usage_logs, openRouterKeys, today,
                 resetLog, completedRotations>>
  /\ UNCHANGED serverVars

\* ---- UsageMonitoringService

\* The quotients usage / limit, of two-decimal amounts given here in cents,
\* that double-precision division rounds to the double just below pct / 100
\* although the exact ratio is pct / 100: 2.4 / 3 is 0.7999999999999999.
\* (Listed for the limits a row can have here, 3.00 and 10.00.)
QuotientRoundsBelow == {<<240, 300, 80>>}

\* usagePercentage >= threshold, with usagePercentage = usage / limit in
\* double precision and the thresholds 0.8 and 0.95 given as pct.
UsagePercentageAtLeast(usage, limit, pct) ==
  LET u == usage \div MicroPerCent
      l == limit \div MicroPerCent
  IN /\ u * 100 >= pct * l
     /\ <<u, l, pct>> \notin QuotientRoundsBelow

\* alertThresholds
usageWarning == 80
usageCritical == 95

\* The body of the loop of checkUsageLimits for one userKey: the alerts with
\* what this row adds to them.
pushAlert(alerts, userKey) ==
  LET usage == JsOr(FromDecimal2(userKey.current_usage), 0)
      limit == FromDecimal2(userKey.monthly_limit)
      alert(type) == [type |-> type, userId |-> userKey.user_id,
                      usage |-> usage, limit |-> limit]
  IN IF ~Truthy(limit) THEN alerts
     ELSE IF UsagePercentageAtLeast(usage, limit, usageCritical)
          THEN Append(alerts, alert("critical"))
     ELSE IF UsagePercentageAtLeast(usage, limit, usageWarning)
          THEN Append(alerts, alert("warning"))
     ELSE alerts

\* for (const userKey of usersWithKeys) { ... }
RECURSIVE AlertsOf(_)
AlertsOf(ids) ==
  IF ids = <<>> THEN <<>>
  ELSE pushAlert(AlertsOf(SubSeq(ids, 1, Len(ids) - 1)),
                 user_api_keys[ids[Len(ids)]])

\* checkUsageLimits: const usersWithKeys = await getAllUsersWithKeys(); the
\* loop; if (alerts.length > 0) await sendUsageAlerts(alerts); return alerts.
\* A failed read is logged and thrown again.
CheckUsageLimitsScan(p, ok) ==
  /\ Free(p)
  /\ LET start == [IdleProc EXCEPT !.op = "check-limits",
                                   !.scanned = getAllUsersWithKeys]
         alerts == AlertsOf(getAllUsersWithKeys)
     IN proc' = [proc EXCEPT ![p] =
                   IF ~ok
                   THEN [start EXCEPT !.pc = "done", !.scanned = <<>>,
                                      !.resp = Fail(500, "store")]
                   ELSE IF alerts = <<>>
                   THEN [start EXCEPT !.pc = "done",
                                      !.resp = [NoResp EXCEPT !.status = 200]]
                   ELSE [start EXCEPT !.pc = "ul_notify", !.alerts = alerts]]
  /\ UNCHANGED <<user_api_keys, api_usage_logs, openRouterKeys, today,
                 resetLog, completedRotations>>
  /\ UNCHANGED <<limiterVars, isRunning, cronTasks, server>>

\* await this.sendUsageAlerts(alerts); return alerts
CheckUsageLimitsNotify(p, delivered) ==
  /\ proc[p].pc = "ul_notify"
  /\ proc' = [proc EXCEPT ![p] = Notified(p, delivered)]
  /\ UNCHANGED <<user_api_keys, api_usage_logs, openRouterKeys, today,
                 resetLog, completedRotations>>
  /\ UNCHANGED serverVars

\* usersWithKeys.sort((a, b) => (b.current_usage || 0) - (a.current_usage ||
\* 0)): a stable sort, largest usage first.
RECURSIVE SortByUsage(_)
SortByUsage(ids) ==
  IF ids = <<>> THEN <<>>
  ELSE LET best == CHOOSE i \in 1..Len(ids) :
                     /\ \A j \in 1..Len(ids) :
                          user_api_keys[ids[j]].current_usage <=
                            user_api_keys[ids[i]].current_usage
                     /\ \A j \in 1..(i - 1) :
                          user_api_keys[ids[j]].current_usage <
                            user_api_keys[ids[i]].current_usage
       IN <<ids[best]>> \o
            SortByUsage(SubSeq(ids, 1, best - 1) \o
                        SubSeq(ids, best + 1, Len(ids)))

\* The report of generateDailyReport, but for its systemStats: userCount and
\* topUsers (.slice(0, 10) keeps them all here).
DailyReport ==
  LET usersWithKeys == SortByUsage(getAllUsersWithKeys)
  IN <<[userCount |-> Len(usersWithKeys),
        topUsers |-> [i \in 1..Len(usersWithKeys) |->
                        [userId |-> user_api_keys[usersWithKeys[i]].user_id,
                         usage |-> user_api_keys[usersWithKeys[i]].current_usage,
                         limit |-> user_api_keys[usersWithKeys[i]].monthly_limit]]]>>

\* generateDailyReport: const systemStats = await getSystemUsageStats()
DailyReportStats(p, ok) ==
  /\ Free(p)
  /\ LET start == [IdleProc EXCEPT !.op = "daily-report"]
     IN proc' = [proc EXCEPT ![p] =
                   IF ok THEN [start EXCEPT !.pc = "dr_scan"]
                   ELSE [start EXCEPT !.pc = "done",
                                      !.resp = Fail(500, "store")]]
  /\ UNCHANGED <<user_api_keys, api_usage_logs, openRouterKeys, today,
                 resetLog, completedRotations>>
  /\ UNCHANGED <<limiterVars, isRunning, cronTasks, server>>

\* const usersWithKeys = await getAllUsersWithKeys(); const report = {...}
DailyReportScan(p, ok) ==
  /\ proc[p].pc = "dr_scan"
  /\ proc' = [proc EXCEPT ![p] =
                IF ok
                THEN [proc[p] EXCEPT !.pc = "dr_notify", !.report = DailyReport]
                ELSE Done(p, Fail(500, "store"))]
  /\ UNCHANGED <<user_api_keys, api_usage_logs, openRouterKeys, today,
                 resetLog, completedRotations>>
  /\ UNCHANGED serverVars

\* await this.sendDailyReport(report); return report
DailyReportNotify(p, delivered) ==
  /\ proc[p].pc = "dr_notify"
  /\ proc' = [proc EXCEPT ![p] = Notified(p, delivered)]
  /\ UNCHANGED <<user_api_keys, api_usage_logs, openRouterKeys, today,
                 resetLog, completedRotations>>
  /\ UNCHANGED serverVars

\* ---- OpenRouterService.batchOperation, POST /api/admin/keys/batch-delete

\* getKeyInfo: GET /api/v1/keys/:id; a key that is not there is an error.
getKeyInfoSucceeds(keyId) ==
  /\ keyId \in 1..Len(openRouterKeys)
  /\ ~openRouterKeys[keyId].deleted

\* The operations of the switch; any other falls to its default.
KnownOperations == {"delete", "info", "test"}

\* Faulty variant: every keyId is reported as a success.
BatchResultAsSuccess(operation, keyId, succeeded) ==
  [keyId |-> keyId, success |-> TRUE, error |-> ""]

\* The result the loop body pushes for one keyId: {keyId, success: true} when
\* deleteKey / getKeyInfo returned, {keyId, success: false, error} from the
\* catch when it threw; testKey catches its own error, so that its result is
\* a success either way; the default case is 'Unknown operation'.
BatchResult(operation, keyId, succeeded) ==
  CASE operation \in {"delete", "info"} ->
         [keyId |-> keyId, success |-> succeeded,
          error |-> IF succeeded THEN "" ELSE "provider"]
    [] operation = "test" ->
         [keyId |-> keyId, success |-> TRUE, error |-> ""]
    [] OTHER ->
         [keyId |-> keyId, success |-> FALSE, error |-> "Unknown operation"]

\* results.filter(r => r.success).length
RECURSIVE SuccessCount(_)
SuccessCount(results) ==
  IF results = <<>> THEN 0
  ELSE (IF Head(results).success THEN 1 ELSE 0) + SuccessCount(Tail(results))

\* res.json({success: true, data: {results, summary}})
BatchDone(p, results) ==
  [Done(p, [NoResp EXCEPT !.status = 200, !.count = SuccessCount(results)])
     EXCEPT !.results = results, !.queue = <<>>]

\* const results = []; for (const keyId of keyIds) ...: with an operation the
\* switch does not know the loop makes no call and runs through.
BatchStart(p, operation, keyIds) ==
  /\ Free(p)
  /\ LET start == [IdleProc EXCEPT !.op = "batch", !.operation = operation,
                                   !.keyIds = keyIds, !.queue = keyIds]
         unknown == [i \in 1..Len(keyIds) |->
                       BatchResult(operation, keyIds[i], FALSE)]
     IN proc' = [proc EXCEPT ![p] =
                   IF operation \in KnownOperations
                   THEN [start EXCEPT !.pc = "bo_call"]
                   ELSE [start EXCEPT
                           !.pc = "done", !.queue = <<>>, !.results = unknown,
                           !.resp = [NoResp EXCEPT !.status = 200]]]
  /\ UNCHANGED <<user_api_keys, api_usage_logs, openRouterKeys, today,
                 resetLog, completedRotations>>
  /\ UNCHANGED serverVars

\* One turn of the loop: await deleteKey(keyId) / getKeyInfo(keyId) /
\* testKey(keyId), results.push(...), and after the last one return results.
BatchCall(p, ok) ==
  /\ proc[p].pc = "bo_call"
  /\ LET keyId == Head(proc[p].queue)
         succeeded == ok /\ getKeyInfoSucceeds(keyId)
         results == Append(proc[p].results,
                           BatchResult(proc[p].operation, keyId, succeeded))
     IN /\ openRouterKeys' =
             IF proc[p].operation = "delete" /\ succeeded
             THEN deleteKey(keyId)
             ELSE openRouterKeys
        /\ proc' = [proc EXCEPT ![p] =
                      IF Tail(proc[p].queue) = <<>>
                      THEN [BatchDone(p, results) EXCEPT
                              !.calls = Append(proc[p].calls, succeeded)]
                      ELSE [proc[p] EXCEPT
                              !.results = results,
                              !.calls = Append(proc[p].calls, succeeded),
                              !.queue = Tail(proc[p].queue)]]
  /\ UNCHANGED <<user_api_keys, api_usage_logs, today, resetLog,
                 completedRotations>>
  /\ UNCHANGED serverVars

\* ---- rateLimiter (src/middleware/auth.js)

\* requestCounts.get(key) || {count: 0, resetTime: now + windowMs}
requestDataOf(key) ==
  IF requestCounts[key] # NoEntry
  THEN requestCounts[key]
  ELSE [count |-> 0, resetTime |-> now + windowMs]

\* if (now > requestData.resetTime) { count = 0; resetTime = now + windowMs }
WindowPassed(requestData) == now > requestData.resetTime

AfterWindowCheck(requestData) ==
  IF WindowPassed(requestData)
  THEN [count |-> 0, resetTime |-> now + windowMs]
  ELSE requestData

\* Faulty variant: > in place of >=.
LimitExceededStrict(requestData) == requestData.count > maxRequests

\* if (requestData.count >= maxRequests)
LimitExceeded(requestData) == requestData.count >= maxRequests

\* rateLimiter(req, res, next).  The object read from the Map is changed in
\* place, so the reset of a stored entry stays even when the request is
\* rejected; a new object reaches the Map only through set().
rateLimiter(key) ==
  LET stored == requestCounts[key] # NoEntry
      newWindow == ~stored \/ WindowPassed(requestDataOf(key))
      requestData == AfterWindowCheck(requestDataOf(key))
      counted == [requestData EXCEPT !.count = @ + 1]
  IN /\ IF LimitExceeded(requestData)
        THEN /\ requestCounts' =
                  IF stored
                  THEN [requestCounts EXCEPT ![key] = requestData]
                  ELSE requestCounts
             /\ limiterRes' = [key |-> key, status |-> 429, remaining |-> 0]
             /\ admitted' =
                  IF newWindow THEN [admitted EXCEPT ![key] = 0] ELSE admitted
        ELSE /\ requestCounts' = [requestCounts EXCEPT ![key] = counted]
             /\ limiterRes' =
                  [key |-> key, status |-> 200,
                   remaining |-> Max({0, maxRequests - counted.count})]
             /\ admitted' =
                  [admitted EXCEPT
                     ![key] = (IF newWindow THEN 0 ELSE @) + 1]
     /\ UNCHANGED <<now, storeVars, backgroundVars>>

\* setInterval(..., windowMs): entries whose window ended more than windowMs
\* ago are deleted.  The timer is not tied to the requests.
CleanUp ==
  /\ requestCounts' =
       [key \in Clients |->
          IF /\ requestCounts[key] # NoEntry
             /\ now - requestCounts[key].resetTime > windowMs
          THEN NoEntry
          ELSE requestCounts[key]]
  /\ UNCHANGED <<now, limiterRes, admitted, storeVars, backgroundVars>>

\* Date.now() moves on.
Tick ==
  /\ now < MaxTime
  /\ now' = now + 1
  /\ UNCHANGED <<requestCounts, limiterRes, admitted, storeVars,
                 backgroundVars>>

\* ---- background services (src/server.js)

\* The service whose start() schedules the callback; the last one is
\* scheduled by startBackgroundServices itself.
ServiceOf(callback) ==
  IF callback = "rotateAllUserKeys" THEN "keyRotationService"
  ELSE "usageMonitoringService"

\* cron.schedule(expression, callback)
schedule(tasks, callbacks) ==
  [callback \in Callbacks |->
     IF callback \in callbacks THEN tasks[callback] + 1 ELSE tasks[callback]]

\* Faulty variant: stop() cancels the tasks its start() scheduled.
stopCancelsTasks(tasks, service) ==
  [callback \in Callbacks |->
     IF ServiceOf(callback) = service /\ callback # "serverResetMonthlyUsage"
     THEN 0 ELSE tasks[callback]]

\* stop() { this.isRunning = false; logger.info(...) }: the tasks after it.
stop(tasks, service) == tasks

\* startBackgroundServices(): usageMonitoringService.start(),
\* keyRotationService.start() (which returns at once unless
\* AUTO_ROTATION_ENABLED is 'true'), then the monthly reset of server.js.
startBackgroundServices(autoRotationEnabled) ==
  /\ server = "up"
  /\ \A callback \in Callbacks : cronTasks[callback] = 0
  /\ cronTasks' =
       schedule(cronTasks,
                {"checkUsageLimits", "generateDailyReport",
                 "resetMonthlyUsage", "serverResetMonthlyUsage"}
                  \cup (IF autoRotationEnabled
                        THEN {"rotateAllUserKeys"} ELSE {}))
  /\ isRunning' = [usageMonitoringService |-> TRUE,
                   keyRotationService |-> autoRotationEnabled]
  /\ UNCHANGED <<server, fired, storeVars, limiterVars>>

\* gracefulShutdown(signal): both stop() calls, then server.close(...) and
\* the 10 s timer; a second signal runs it again.
gracefulShutdown ==
  /\ server \in {"up", "closing"}
  /\ isRunning' = [service \in Services |-> FALSE]
  /\ cronTasks' = stop(stop(cronTasks, "keyRotationService"),
                       "usageMonitoringService")
  /\ server' = "closing"
  /\ UNCHANGED <<fired, storeVars, limiterVars>>

\* process.exit(...), from the close callback or from the 10 s timer
processExit ==
  /\ server = "closing"
  /\ server' = "exited"
  /\ UNCHANGED <<isRunning, cronTasks, fired, storeVars, limiterVars>>

\* A scheduled task is due: nothing but the process and the task itself
\* decides whether its callback runs.
Due(callback) == server # "exited" /\ cronTasks[callback] > 0

\* The callback of a due task is run: fired records which, and what the
\* service's isRunning and the process were at that moment.
Fires(callback) ==
  /\ Due(callback)
  /\ fired' = [callback |-> callback,
               isRunning |-> isRunning[ServiceOf(callback)],
               server |-> server]

\* ------------------------------------------------------- specifications

\* The outcomes a call on the provider or an insert into the store can have
\* beyond what the state decides: it succeeds, or it fails (network, HTTP
\* status, store error).
Outcomes == BOOLEAN

CreateUser(p, users, planInputs, limitInputs, oks, maxKeys) ==
  \/ \E userId \in users, monthlyLimit \in limitInputs :
       Room(1, maxKeys) /\ CreateUserCheck(p, userId, monthlyLimit)
  \/ \E plan \in planInputs : CreateUserLimit(p, plan)
  \/ \E ok \in oks : CreateUserProvider(p, ok)
  \/ \E ok \in oks : CreateUserStore(p, ok)

RotateUser(p, users, deleteOldInputs, oks, maxKeys) ==
  \/ \E userId \in users, deleteOld \in deleteOldInputs :
       Room(1, maxKeys) /\ RotateUserGet(p, userId, deleteOld)
  \/ RotateUserDeactivate(p)
  \/ \E ok \in oks : RotateUserProvider(p, ok)
  \/ \E ok \in oks : RotateUserStore(p, ok)

RotateAll(p, maxKeys) ==
  \/ Room(Len(getAllUsersWithKeys), maxKeys) /\ RotateAllScan(p)
       /\ UNCHANGED fired
  \/ RotateKeyGet(p)
  \/ RotateKeyDeactivate(p)
  \/ \E ok \in BOOLEAN : RotateKeyProvider(p, ok)
  \/ \E ok \in BOOLEAN : RotateKeyStore(p, ok)
  \/ \E delivered \in BOOLEAN : RotateAllNotify(p, delivered)

\* The plans that give the two kinds of limit a row can have: a number and
\* none.
TwoPlans == {"free", "constructor"}

\* Key lifecycle, requests served one after the other: create-user,
\* rotate-user, the rotate-all pass and deactivate.
Next ==
  \/ CreateUser("a", Users, TwoPlans, {Undefined}, Outcomes, MaxKeys)
  \/ RotateUser("a", Users, BOOLEAN, Outcomes, MaxKeys)
  \/ \E ok \in BOOLEAN : RotateUserDelete("a", ok)
  \/ RotateAll("a", MaxKeys)
  \/ \E userId \in Users : DeactivateUser("a", userId)

Spec == Init /\ [][Next]_vars

\* Usage accounting over the months, requests served one after the other:
\* keys are created and rotated, usage is logged, the reset runs, and the
\* calendar moves on.
NextUsage ==
  \/ CreateUser("a", {1}, TwoPlans, {Undefined}, {TRUE}, MaxKeysSmall)
  \/ RotateUser("a", {1}, {FALSE}, {TRUE}, MaxKeysSmall)
  \/ \E apiKeyId \in 1..(Len(user_api_keys) + 1), costUsd \in CostInputs :
       LogUsage("a", 1, apiKeyId, costUsd)
  \/ ResetUsage("a") /\ UNCHANGED fired
  \/ Free("a") /\ AdvanceMonth

SpecUsage == Init /\ [][NextUsage]_vars

\* create-user over every plan and limit a request can come with.
NextCreate ==
  \/ CreateUser("a", Users, PlanInputs, LimitInputs, Outcomes, MaxKeysSmall)
  \/ \E userId \in Users : DeactivateUser("a", userId)

SpecCreate == Init /\ [][NextCreate]_vars

\* costUsd of the requests logged while the limits are watched, in
\* micro-dollars: 8.5, 1.0, 1.5, 2.4 and 9.996 dollars.
MonitorCosts == {8500000, 1000000, 1500000, 2400000, 9996000}
\* monthlyLimit of the create-user requests there: absent, or 3.00.
MonitorLimits == {Undefined, 3000000}

CheckLimit(p, users, oks) ==
  \/ \E userId \in users, ok \in oks : CheckLimitRpc(p, userId, ok)
  \/ \E ok \in oks : CheckLimitGet(p, ok)

CheckUsageLimits(p, oks) ==
  \/ \E ok \in oks : CheckUsageLimitsScan(p, ok) /\ UNCHANGED fired
  \/ \E delivered \in BOOLEAN : CheckUsageLimitsNotify(p, delivered)

GenerateDailyReport(p, oks) ==
  \/ \E ok \in oks : DailyReportStats(p, ok) /\ UNCHANGED fired
  \/ \E ok \in oks : DailyReportScan(p, ok)
  \/ \E delivered \in BOOLEAN : DailyReportNotify(p, delivered)

\* Limits watched, requests served one after the other: keys are created,
\* usage is logged, and the limit check of one user, the limit-check pass and
\* the daily report run.
NextMonitor ==
  \/ CreateUser("a", Users, TwoPlans, MonitorLimits, {TRUE}, MaxKeysSmall)
  \/ \E apiKeyId \in 1..Len(user_api_keys), costUsd \in MonitorCosts :
       LogUsage("a", 1, apiKeyId, costUsd)
  \/ CheckLimit("a", Users, Outcomes)
  \/ CheckUsageLimits("a", Outcomes)
  \/ GenerateDailyReport("a", Outcomes)

SpecMonitor == Init /\ [][NextMonitor]_vars

\* The three passes that notify, one run after the other, over free-tier
\* keys with usage logged at 8.5 dollars a request: the limit-check pass, the
\* daily report and the rotation pass.
NextPasses ==
  \/ CreateUser("a", Users, {"free"}, {Undefined}, {TRUE}, MaxKeysSmall)
  \/ \E apiKeyId \in 1..Len(user_api_keys) :
       LogUsage("a", 1, apiKeyId, 8500000)
  \/ CheckUsageLimits("a", Outcomes)
  \/ GenerateDailyReport("a", Outcomes)
  \/ RotateAll("a", MaxKeysSmall)

SpecPasses == Init /\ [][NextPasses]_vars

\* keyIds of a batch request: up to MaxBatch ids, each of a key the provider
\* has created or the next id, which it has not.
KeyIdLists ==
  UNION {[1..n -> 1..(Len(openRouterKeys) + 1)] : n \in 1..MaxBatch}

Batch(p, operations, oks) ==
  \/ \E operation \in operations, keyIds \in KeyIdLists :
       BatchStart(p, operation, keyIds)
  \/ \E ok \in oks : BatchCall(p, ok)

\* Batches over the provider's keys, requests served one after the other:
\* up to MaxBatch keys are created and batches of every operation run over
\* them.
NextBatch ==
  \/ CreateUser("a", {1}, {"free"}, {Undefined}, {TRUE}, MaxBatch)
  \/ DeactivateUser("a", 1)
  \/ Batch("a", KnownOperations \cup {"purge"}, Outcomes)

SpecBatch == Init /\ [][NextBatch]_vars

\* The steps of a handler at which the store answers.
StoreAnswers(p) ==
  \/ CreateUserLimit(p, "free")
  \/ \E ok \in Outcomes : CreateUserStore(p, ok)
  \/ RotateUserDeactivate(p)
  \/ \E ok \in Outcomes : RotateUserStore(p, ok)

\* The lifecycle operations that call the provider, one after the other, with
\* a store that always answers and a provider that may never do: create-user,
\* rotate-user and batch delete.
NextAnswers ==
  \/ CreateUser("a", {1}, {"free"}, {Undefined}, Outcomes, MaxKeysSmall)
  \/ RotateUser("a", {1}, BOOLEAN, Outcomes, MaxKeysSmall)
  \/ \E ok \in BOOLEAN : RotateUserDelete("a", ok)
  \/ Batch("a", {"delete"}, Outcomes)

SpecAnswers == Init /\ [][NextAnswers]_vars /\ WF_vars(StoreAnswers("a"))

\* Everything that provisions a key or writes to the store, requests served
\* one after the other: create-user, rotate-user, the rotation pass and the
\* usage log.
NextSecrets ==
  \/ CreateUser("a", {1}, {"free"}, {Undefined}, Outcomes, MaxKeysSmall)
  \/ RotateUser("a", {1}, BOOLEAN, Outcomes, MaxKeysSmall)
  \/ \E ok \in BOOLEAN : RotateUserDelete("a", ok)
  \/ RotateAll("a", MaxKeysSmall)
  \/ \E apiKeyId \in 1..Len(user_api_keys) :
       LogUsage("a", 1, apiKeyId, 1000000)

SpecSecrets == Init /\ [][NextSecrets]_vars

\* Every operation that writes user_api_keys rows over their life, requests
\* served one after the other: create-user, rotate-user, the rotation pass,
\* deactivate and the monthly reset, over the months.
NextLifecycle ==
  \/ CreateUser("a", Users, {"free"}, {Undefined}, Outcomes, MaxKeysSmall)
  \/ RotateUser("a", Users, BOOLEAN, Outcomes, MaxKeysSmall)
  \/ \E ok \in BOOLEAN : RotateUserDelete("a", ok)
  \/ RotateAll("a", MaxKeysSmall)
  \/ \E userId \in Users : DeactivateUser("a", userId)
  \/ ResetUsage("a") /\ UNCHANGED fired
  \/ Free("a") /\ AdvanceMonth

SpecLifecycle == Init /\ [][NextLifecycle]_vars

\* A rotate-user request overlapping the scheduled rotation pass, with a
\* provider and a store that do not fail: the keys are created while the pass
\* is not running, then client "a" rotates a user while "b" runs rotate-all.
NextRotations ==
  \/ Free("b") /\ CreateUser("a", Users, {"free"}, {Undefined}, {TRUE}, MaxKeys)
  \/ RotateUser("a", Users, BOOLEAN, {TRUE}, MaxKeys)
  \/ RotateUserDelete("a", TRUE)
  \/ Room(Len(getAllUsersWithKeys), MaxKeys) /\ RotateAllScan("b")
       /\ UNCHANGED fired
  \/ RotateKeyGet("b")
  \/ RotateKeyDeactivate("b")
  \/ RotateKeyProvider("b", TRUE)
  \/ RotateKeyStore("b", TRUE)
  \/ \E delivered \in BOOLEAN : RotateAllNotify("b", delivered)

SpecRotations == Init /\ [][NextRotations]_vars

\* The rate limiter in front of every route: requests of two clients, the
\* clean-up timer and the clock.
NextRateLimit ==
  \/ \E key \in Clients : rateLimiter(key)
  \/ CleanUp
  \/ Tick

SpecRateLimit == Init /\ [][NextRateLimit]_vars

\* The process is alive.
Up == server # "exited"

\* The life of the process: the background services are started, the
\* scheduled tasks run their passes whenever they are due, a signal starts the
\* graceful shutdown and the process exits.  A key is created and usage of
\* 8.5 dollars a request is logged, so that the passes have a row to work on.
NextServices ==
  \/ \E autoRotationEnabled \in BOOLEAN :
       startBackgroundServices(autoRotationEnabled)
  \/ gracefulShutdown
  \/ processExit
  \/ Up /\ CreateUser("a", {1}, {"free"}, {Undefined}, {TRUE}, MaxBatch)
  \/ /\ Up
     /\ \E apiKeyId \in 1..Len(user_api_keys) :
          LogUsage("a", 1, apiKeyId, 8500000)
  \/ Fires("checkUsageLimits") /\ CheckUsageLimitsScan("a", TRUE)
  \/ Up /\ \E delivered \in BOOLEAN : CheckUsageLimitsNotify("a", delivered)
  \/ Fires("generateDailyReport") /\ DailyReportStats("a", TRUE)
  \/ Up /\ DailyReportScan("a", TRUE)
  \/ Up /\ \E delivered \in BOOLEAN : DailyReportNotify("a", delivered)
  \/ \E callback \in {"resetMonthlyUsage", "serverResetMonthlyUsage"} :
       Fires(callback) /\ ResetUsage("a")
  \/ /\ Fires("rotateAllUserKeys")
     /\ Room(Len(getAllUsersWithKeys), MaxBatch)
     /\ RotateAllScan("a")
  \/ Up /\ RotateKeyGet("a")
  \/ Up /\ RotateKeyDeactivate("a")
  \/ Up /\ RotateKeyProvider("a", TRUE)
  \/ Up /\ RotateKeyStore("a", TRUE)
  \/ Up /\ \E delivered \in BOOLEAN : RotateAllNotify("a", delivered)

SpecServices == Init /\ [][NextServices]_vars

\* The monthly reset has not been started in the current month.
NoResetYet ==
  \A p \in Procs : ~(proc[p].op = "reset" /\ proc[p].cycle = today)

\* The two schedules of the monthly reset ('0 0 1 * *' in the monitoring
\* service and in server.js): in every month each of the two clients runs the
\* reset once, and the runs may overlap.  Before them keys are created and
\* rotated and usage is logged.
NextResets ==
  \/ NoResetYet /\ CreateUser("a", {1}, {"free"}, {Undefined}, {TRUE}, MaxKeysSmall)
  \/ NoResetYet /\ RotateUser("a", {1}, {FALSE}, {TRUE}, MaxKeysSmall)
  \/ /\ NoResetYet
     /\ \E apiKeyId \in 1..Len(user_api_keys) :
          LogUsage("a", 1, apiKeyId, 1000000)
  \/ (\A p \in Procs : Free(p)) /\ AdvanceMonth
  \/ \E p \in Procs :
       /\ ~(proc[p].op = "reset" /\ proc[p].cycle = today)
       /\ ResetBegin(p)
  \/ \E p \in Procs : ResetRow(p)
  \/ \E p \in Procs : ResetEnd(p)

SpecResets == Init /\ [][NextResets]_vars

\* Overlapping requests: the handlers of two requests interleave at their
\* awaits.
NextConcurrent ==
  \E p \in Procs :
    \/ CreateUser(p, Users, {"free"}, {Undefined}, Outcomes, MaxKeysSmall)
    \/ RotateUser(p, Users, BOOLEAN, Outcomes, MaxKeysSmall)
    \/ \E ok \in BOOLEAN : RotateUserDelete(p, ok)
    \/ RotateAll(p, MaxKeysSmall)
    \/ \E userId \in Users : DeactivateUser(p, userId)

SpecConcurrent == Init /\ [][NextConcurrent]_vars

\* ------------------------------------------------------------- properties

Row(i) == user_api_keys[i]

Finished(p, op) == proc[p].op = op /\ proc[p].pc = "done"

\* C1: with requests served one after the other (create-user, rotate-user,
\* rotate-all, deactivate), no user ever has more than one row with
\* status = active.
OneActivePerUser == \A u \in Users : Cardinality(ActiveIds(u)) <= 1

\* A rotation has finished: its user has one active row, and an inactive one.
OneActiveAfterRotation ==
  /\ Finished("a", "rotate-user")
  /\ proc["a"].resp.status = 200
  /\ Cardinality(ActiveIds(proc["a"].userId)) = 1
  /\ \E i \in RowIds : /\ Row(i).user_id = proc["a"].userId
                       /\ Row(i).status = "inactive"

\* C2: also with overlapping create-user / rotate-user requests for one user,
\* no state has two rows of that user with status = active.
OneActivePerUserOverlapping ==
  \A u \in Users : \A i, j \in ActiveIds(u) : i = j

\* C3: when the provider's create call fails during a rotation (rotate-user
\* or a member of rotate-all), the user's original row is still active, with
\* the same openrouter_key_id, once the rotation has failed.
FailedRotationKeepsKey ==
  /\ \A p \in Procs :
       (Finished(p, "rotate-user") /\ proc[p].resp.error = "provider") =>
         /\ Row(proc[p].currentKey.id).status = "active"
         /\ Row(proc[p].currentKey.id).openrouter_key_id =
              proc[p].currentKey.openrouter_key_id
  /\ \A p \in Procs :
       Finished(p, "rotate-all") =>
         \A i \in 1..Len(proc[p].results) :
           proc[p].results[i].error = "provider" =>
             \E r \in ActiveIds(proc[p].results[i].userId) :
               r <= proc[p].rowsAtScan

\* C4: rotateAllUserKeys returns one entry per user that had an active row
\* when it scanned, in scan order; an entry is a success iff that user's
\* rotation completed (a new row was stored for the user), whatever happened
\* to the members before it, and every user reported as a success has a new
\* active row.
RotateAllManifest ==
  \A p \in Procs :
    Finished(p, "rotate-all") =>
      LET results == proc[p].results
          scanned == proc[p].scanned
          NewRows(u) == {r \in RowIds : /\ r > proc[p].rowsAtScan
                                        /\ Row(r).user_id = u}
      IN /\ Len(results) = Len(scanned)
         /\ {scanned[i] : i \in 1..Len(scanned)} = proc[p].usersAtScan
         /\ Len(scanned) = Cardinality(proc[p].usersAtScan)
         /\ \A i \in 1..Len(results) :
              /\ results[i].userId = scanned[i]
              /\ results[i].success <=> NewRows(scanned[i]) # {}
              /\ results[i].success =>
                   \E r \in NewRows(scanned[i]) : Row(r).status = "active"

\* A rotate-all whose first member failed and whose second succeeded.
ManifestFailureThenSuccess ==
  /\ Finished("a", "rotate-all")
  /\ Len(proc["a"].results) = 2
  /\ ~proc["a"].results[1].success
  /\ proc["a"].results[2].success

\* Never touched by a reset: the row still has the reset date it was given
\* when it was inserted.
NeverReset(row) == row.usage_reset_date = row.created_at

\* C5: before any reset, a row's current_usage is exactly the sum of cost_usd
\* of the usage logs that refer to it, whatever the costs (also below a cent).
UsageConservation ==
  \A i \in RowIds :
    NeverReset(Row(i)) =>
      FromDecimal2(Row(i).current_usage) =
        SumCost(api_usage_logs, LAMBDA r : r.api_key_id = i)

\* What rounding to a cent can take away from one added cost: less than half
\* a cent.
RoundingLoss == MicroPerCent \div 2

\* C6: a monthly reset never erases usage logged in the month that has just
\* started: for a row whose reset date is the current month, the costs logged
\* against it in the current month are contained in current_usage (up to the
\* rounding of each addition).
ResetKeepsNewCycleUsage ==
  \A i \in RowIds :
    Row(i).usage_reset_date = today =>
      LET InCycle(r) == r.api_key_id = i /\ r.created_at = today
          n == BagCardinality(
                 [r \in {x \in BagToSet(api_usage_logs) : InCycle(x)} |->
                    CopiesIn(r, api_usage_logs)])
      IN FromDecimal2(Row(i).current_usage) + n * RoundingLoss >=
           SumCost(api_usage_logs, InCycle)

\* C7: a reset sets current_usage to 0 and usage_reset_date to the start of
\* the current month on exactly the rows whose usage_reset_date is before it,
\* leaves the other rows and the other columns alone, and returns the number
\* of rows it touched; a further reset in the same month returns 0 and
\* changes no row.
ResetIdempotence ==
  [][resetLog' # resetLog =>
       /\ Len(user_api_keys') = Len(user_api_keys)
       /\ \A i \in RowIds :
            IF Row(i).usage_reset_date < today
            THEN user_api_keys'[i] =
                   [Row(i) EXCEPT !.current_usage = 0,
                                  !.usage_reset_date = today]
            ELSE user_api_keys'[i] = Row(i)
       /\ resetLog'.count =
            Cardinality({i \in RowIds : Row(i).usage_reset_date < today})
       /\ ResetRuns >= 1 =>
            /\ resetLog'.count = 0
            /\ user_api_keys' = user_api_keys]_vars

\* The reset has run again in a month in which it had already reset a row
\* that carried usage into the month.
SecondResetInCycle ==
  /\ resetLog.cycle = today
  /\ resetLog.runs >= 2
  /\ resetLog.count = 0
  /\ \E i \in RowIds : /\ Row(i).usage_reset_date = today
                       /\ Row(i).created_at < today
                       /\ Row(i).current_usage = 0
                       /\ SumCost(api_usage_logs,
                                  LAMBDA r : r.api_key_id = i) > 0

\* C8: once a rotation of a user has completed, the lookup of the user's
\* active key never returns a row that carries the rotated-out
\* openrouter_key_id, however the requests overlap.
RotatedOutKeyNeverActive ==
  \A c \in completedRotations :
    getUserApiKey(c[1]).openrouter_key_id # c[2]

\* A rotation has completed and the lookup for its user returns a row.
LookupAfterRotation ==
  \E c \in completedRotations : getUserApiKey(c[1]) # NoRow

\* C9: a successful rotation with deleteOld = false of a row with limit L
\* (possibly none) and usage U leaves a new active row with limit L and usage
\* 0 whose provider key was created with limit L, and the old row inactive
\* with its openrouter_key_id and its usage U unchanged.
RotationCarriesLimit ==
  \A p \in Procs :
    (Finished(p, "rotate-user") /\ proc[p].resp.status = 200
       /\ ~proc[p].deleteOld) =>
      LET cur == proc[p].currentKey
          old == Row(proc[p].resp.oldKey)
          new == Row(proc[p].resp.row)
      IN /\ new.user_id = proc[p].userId
         /\ new.status = "active"
         /\ new.monthly_limit = cur.monthly_limit
         /\ new.current_usage = 0
         /\ new.openrouter_key_id # cur.openrouter_key_id
         /\ openRouterKeys[new.openrouter_key_id].limit =
              FromDecimal2(cur.monthly_limit)
         /\ old.id = cur.id
         /\ old.status = "inactive"
         /\ old.openrouter_key_id = cur.openrouter_key_id
         /\ old.current_usage = cur.current_usage
         /\ old.monthly_limit = cur.monthly_limit

\* A rotation with deleteOld = false of a row with a limit and usage above 0
\* has succeeded.
RotatedWithUsage ==
  /\ Finished("a", "rotate-user")
  /\ proc["a"].resp.status = 200
  /\ ~proc["a"].deleteOld
  /\ proc["a"].currentKey.current_usage > 0
  /\ proc["a"].currentKey.monthly_limit # NULL

\* C10: create-user without a monthlyLimit for a user whose active
\* subscription plan is admin creates a provider key and a row without a
\* limit.
AdminTierUnlimited ==
  \A p \in Procs :
    (Finished(p, "create-user") /\ proc[p].resp.status = 201
       /\ proc[p].plan = "admin" /\ proc[p].monthlyLimit = Undefined) =>
      /\ Row(proc[p].resp.row).monthly_limit = NULL
      /\ openRouterKeys[proc[p].resp.key].limit = NULL

\* The tier table as the documentation gives it, in micro-dollars; every other
\* plan, and no subscription at all, is the free tier.
TierLimit(plan) ==
  CASE plan = "standard" -> 50000000
    [] plan = "micro" -> 100000000
    [] plan = "operator" -> 250000000
    [] plan = "enterprise" -> 500000000
    [] plan = "beta" -> 1000000000
    [] OTHER -> 10000000

\* C11: create-user without a monthlyLimit gives the key and the row the limit
\* of the user's tier: 10, 50, 100, 250, 500, 1000 for free, standard, micro,
\* operator, enterprise, beta, and the free-tier 10.00, never no limit, for
\* every plan the table does not know and for a user with no subscription.
TierFallback ==
  \A p \in Procs :
    (Finished(p, "create-user") /\ proc[p].resp.status = 201
       /\ proc[p].monthlyLimit = Undefined
       /\ proc[p].plan \notin {"admin", "future4200"}) =>
      /\ Row(proc[p].resp.row).monthly_limit =
           ToDecimal2(TierLimit(proc[p].plan))
      /\ openRouterKeys[proc[p].resp.key].limit = TierLimit(proc[p].plan)

\* The alerts of a finished limit-check pass that are about user u.
AlertsAbout(p, u) ==
  {k \in 1..Len(proc[p].alerts) : proc[p].alerts[k].userId = u}

\* C12: the limit-check pass classifies every active row: a row with a limit
\* yields exactly one alert, of type critical, when usage / limit >= 95%,
\* exactly one, of type warning, when 80% <= usage / limit < 95%, and none
\* below 80%; a row without a limit yields none.
LimitCheckClassifies ==
  \A p \in Procs :
    (Finished(p, "check-limits") /\ proc[p].resp.status = 200) =>
      \A u \in Users : \A i \in ActiveIds(u) :
        LET usage == Row(i).current_usage
            limit == Row(i).monthly_limit
            Types == {proc[p].alerts[k].type : k \in AlertsAbout(p, u)}
        IN IF limit = NULL THEN AlertsAbout(p, u) = {}
           ELSE IF usage * 100 >= 95 * limit
                THEN Cardinality(AlertsAbout(p, u)) = 1 /\ Types = {"critical"}
           ELSE IF usage * 100 >= 80 * limit
                THEN Cardinality(AlertsAbout(p, u)) = 1 /\ Types = {"warning"}
           ELSE AlertsAbout(p, u) = {}

\* C13: the limit check of a user with an active row answers within-limit
\* when the row has no limit or its usage is below the limit, and exceeded
\* when the usage is the limit or more; and the usage it answers from is the
\* sum of the costs logged so far against the active key.
CheckLimitReflectsUsage ==
  \A p \in Procs :
    (Finished(p, "check-limit") /\ proc[p].resp.status = 200
       /\ proc[p].currentKey # NoRow) =>
      LET row == proc[p].currentKey
          logged == SumCost(api_usage_logs, LAMBDA r : r.api_key_id = row.id)
      IN /\ proc[p].resp.withinLimit <=>
              (row.monthly_limit = NULL \/ row.current_usage < row.monthly_limit)
         /\ proc[p].resp.withinLimit <=>
              (row.monthly_limit = NULL
                 \/ logged < FromDecimal2(row.monthly_limit))

\* C14: the limit check of a user who has no active row has an outcome of its
\* own (not found): it is never the success with withinLimit = true that a
\* user within the limit, or without one, gets.
CheckLimitNotFound ==
  \A p \in Procs :
    (Finished(p, "check-limit") /\ proc[p].resp.error = ""
       /\ proc[p].currentKey = NoRow) =>
      ~(proc[p].resp.status = 200 /\ proc[p].resp.withinLimit)

\* C15: deactivating the key of a user who has no active row (it is inactive
\* already) is a no-op that returns without an error.
DeactivateIdempotent ==
  \A p \in Procs :
    (Finished(p, "deactivate") /\ proc[p].currentKey = NoRow) =>
      proc[p].resp.error = ""

\* C16: create-user for a user who has an active row answers with a conflict
\* that carries the existing row, and that is all it does: no key is created
\* at the provider and the store is left as it was.
ConflictLeavesStore ==
  [][\A p \in Procs :
       (/\ Free(p)
        /\ proc'[p] # proc[p]
        /\ proc'[p].op = "create-user"
        /\ getUserApiKey(proc'[p].userId) # NoRow) =>
         /\ proc'[p].pc = "done"
         /\ proc'[p].resp.status = 409
         /\ proc'[p].resp.row = getUserApiKey(proc'[p].userId).id
         /\ user_api_keys' = user_api_keys
         /\ openRouterKeys' = openRouterKeys]_vars

\* A create-user has been answered with a conflict that names the user's
\* active row.
ConflictAnswered ==
  /\ Finished("a", "create-user")
  /\ proc["a"].resp.status = 409
  /\ proc["a"].resp.row \in ActiveIds(proc["a"].userId)

\* C17: no execution ends with a provider key that exists at the provider, is
\* referred to by no row, and has not been deleted (nothing else marks a key
\* for cleanup): when the insert fails after the provider created the key,
\* the key is compensated for.
NoOrphanedProviderKey ==
  (\A p \in Procs : Free(p)) =>
    \A k \in 1..Len(openRouterKeys) :
      \/ openRouterKeys[k].deleted
      \/ \E i \in RowIds : Row(i).openrouter_key_id = k

\* C18: a rotation with deleteOld = true that has stored the new row succeeds
\* whether or not the provider deleted the old key: it answers with the new
\* row and key, the new row is active and the old row inactive.
DeleteOldBestEffort ==
  \A p \in Procs :
    (Finished(p, "rotate-user") /\ proc[p].deleteOld
       /\ proc[p].newUserApiKey # 0) =>
      /\ proc[p].resp.status = 200
      /\ proc[p].resp.row = proc[p].newUserApiKey
      /\ proc[p].resp.key = proc[p].newOpenRouterKey
      /\ proc[p].resp.oldKey = proc[p].currentKey.id
      /\ Row(proc[p].newUserApiKey).status = "active"
      /\ Row(proc[p].newUserApiKey).openrouter_key_id = proc[p].newOpenRouterKey
      /\ Row(proc[p].currentKey.id).status = "inactive"

\* A rotation with deleteOld = true has finished and the old key is still at
\* the provider: its delete failed.
DeleteOldFailed ==
  /\ Finished("a", "rotate-user")
  /\ proc["a"].deleteOld
  /\ proc["a"].newUserApiKey # 0
  /\ ~openRouterKeys[proc["a"].currentKey.openrouter_key_id].deleted

\* C20: the notification of a pass never affects what the pass returns nor
\* the store: whether the webhook delivery succeeds or fails, the limit-check
\* pass returns the alerts it had collected, the daily report its report, the
\* rotation pass its manifest, and no table and no provider key changes.
NotifierNeverAffectsResults ==
  [][\A p \in Procs :
       (proc[p].pc \in {"ul_notify", "dr_notify", "ra_notify"}
          /\ proc'[p] # proc[p]) =>
         /\ proc'[p].pc = "done"
         /\ proc'[p].resp.status = 200
         /\ proc'[p].resp.error = ""
         /\ proc'[p].alerts = proc[p].alerts
         /\ proc'[p].report = proc[p].report
         /\ proc'[p].results = proc[p].results
         /\ user_api_keys' = user_api_keys
         /\ api_usage_logs' = api_usage_logs
         /\ openRouterKeys' = openRouterKeys]_vars

\* A limit-check pass that had alerts to send has finished.
AlertsSentOrNot ==
  /\ Finished("a", "check-limits")
  /\ proc["a"].alerts # <<>>
  /\ proc["a"].resp.status = 200

\* The steps at which a pass waits for its notification to be over.
NotifyPcs == {"ul_notify", "dr_notify", "ra_notify"}

\* C21: the notification of a pass is never awaited: in every state in which
\* a notification of the limit-check pass, the daily report or the rotation
\* pass is under way and not yet answered, that pass has already returned
\* its result, so that it completes though the notifier never answers.
NotifierNeverAwaited ==
  \A p \in Procs :
    proc[p].op \in {"check-limits", "daily-report", "rotate-all"} =>
      proc[p].pc \notin NotifyPcs

\* C22: no operation blocks for ever: a create-user, rotate-user or batch
\* request that is waiting, be it for a provider that never answers, ends (with
\* a failure it reports).
EveryOperationReturns ==
  \A p \in Procs : (~Free(p)) ~> Free(p)

\* C23: a batch returns one result per id, in the order of the ids; for
\* delete and info the result of an id is a success iff the provider call for
\* that id succeeded (and the key a delete reports as deleted is deleted); a
\* failure for one id stops neither the calls for the ids after it nor the
\* batch, which answers with its results.
BatchResults ==
  \A p \in Procs :
    /\ (proc[p].op = "batch" /\ proc[p].pc = "bo_call") =>
         /\ proc[p].queue # <<>>
         /\ Len(proc[p].results) + Len(proc[p].queue) = Len(proc[p].keyIds)
    /\ Finished(p, "batch") =>
         LET results == proc[p].results
             keyIds == proc[p].keyIds
             calls == proc[p].calls
         IN /\ proc[p].resp.status = 200
            /\ proc[p].resp.error = ""
            /\ Len(results) = Len(keyIds)
            /\ \A i \in 1..Len(keyIds) : results[i].keyId = keyIds[i]
            /\ proc[p].operation \in {"delete", "info"} =>
                 /\ Len(calls) = Len(keyIds)
                 /\ \A i \in 1..Len(keyIds) : results[i].success <=> calls[i]
            /\ proc[p].operation = "delete" =>
                 \A i \in 1..Len(keyIds) :
                   results[i].success =>
                     /\ keyIds[i] \in 1..Len(openRouterKeys)
                     /\ openRouterKeys[keyIds[i]].deleted

\* A batch delete of two ids has answered: the first delete failed, the second
\* succeeded.
BatchFailureThenSuccess ==
  /\ Finished("a", "batch")
  /\ proc["a"].operation = "delete"
  /\ Len(proc["a"].results) = 2
  /\ ~proc["a"].results[1].success
  /\ proc["a"].results[2].success
  /\ openRouterKeys[proc["a"].keyIds[2]].deleted

\* The secrets of the keys the provider has created.
Secrets == {SecretOf(k) : k \in 1..Len(openRouterKeys)}

LogAndIncrementOneUnit ==
  [][/\ api_usage_logs' # api_usage_logs =>
          \E r \in BagToSet(api_usage_logs') :
            /\ api_usage_logs' = api_usage_logs (+) SetToBag({r})
            /\ r.api_key_id \in RowIds
            /\ FromDecimal2(user_api_keys'[r.api_key_id].current_usage) =
                 FromDecimal2(Row(r.api_key_id).current_usage) + r.cost_usd
     /\ \A p \in Procs :
          (proc'[p] # proc[p] /\ proc'[p].op = "log"
             /\ proc'[p].resp.error # "") =>
            /\ api_usage_logs' = api_usage_logs
            /\ user_api_keys' = user_api_keys
     /\ (\E i \in RowIds : user_api_keys'[i].current_usage >
                             Row(i).current_usage) =>
          api_usage_logs' # api_usage_logs]_vars

\* C26: when the provider's create call fails during create-user, the request
\* ends there with an error (no success, no row, key or secret in its answer),
\* it creates no row: the store is as it was, and the user still has no
\* active row.
ProviderFailureFailsCreate ==
  [][\A p \in Procs :
       (/\ proc[p].pc = "cu_provider"
        /\ proc'[p] # proc[p]
        /\ openRouterKeys' = openRouterKeys) =>
         /\ proc'[p].pc = "done"
         /\ proc'[p].resp.status = 500
         /\ proc'[p].resp.error # ""
         /\ proc'[p].resp.row = 0
         /\ proc'[p].resp.key = 0
         /\ proc'[p].resp.secret = 0
         /\ user_api_keys' = user_api_keys
         /\ api_usage_logs' = api_usage_logs
         /\ ActiveIds(proc[p].userId) = {}]_vars

\* A create-user has failed at the provider while the other user has a row:
\* the user has no row and the provider no further key.
CreateFailedAtProvider ==
  /\ Finished("a", "create-user")
  /\ proc["a"].resp.error = "provider"
  /\ user_api_keys # <<>>
  /\ \A i \in RowIds : Row(i).user_id # proc["a"].userId
  /\ Len(openRouterKeys) = Len(user_api_keys)

\* C27: a rotation for a user who has no active row fails with not found and
\* does nothing else: the request ends at once, so that it calls the provider
\* neither to create nor to delete a key, and no table changes.
RotateWithoutKeyNotFound ==
  [][\A p \in Procs :
       /\ (/\ Free(p)
           /\ proc'[p] # proc[p]
           /\ proc'[p].op = "rotate-user"
           /\ getUserApiKey(proc'[p].userId) = NoRow) =>
            /\ proc'[p].pc = "done"
            /\ proc'[p].resp.status = 404
            /\ proc'[p].resp.error = "not found"
            /\ proc'[p].resp.row = 0
            /\ proc'[p].resp.secret = 0
            /\ user_api_keys' = user_api_keys
            /\ openRouterKeys' = openRouterKeys
       /\ (/\ proc[p].pc = "ra_get"
           /\ proc'[p] # proc[p]
           /\ getUserApiKey(Head(proc[p].queue)) = NoRow) =>
            /\ proc'[p].results =
                 Append(proc[p].results,
                        [userId |-> Head(proc[p].queue), success |-> FALSE,
                         error |-> "not found"])
            /\ user_api_keys' = user_api_keys
            /\ openRouterKeys' = openRouterKeys]_vars

\* A rotate-user for a user whose only row is inactive has been answered with
\* not found.
RotateNotFoundAnswered ==
  /\ Finished("a", "rotate-user")
  /\ proc["a"].resp.status = 404
  /\ \E i \in RowIds : /\ Row(i).user_id = proc["a"].userId
                       /\ Row(i).status = "inactive"
  /\ ActiveIds(proc["a"].userId) = {}

\* The rotation of p (the request, or the member of the pass it is at).
Rotating(p) == proc[p].op \in {"rotate-user", "rotate-all"}

\* C28: a rotation takes its steps in the order deactivate the old row,
\* request the new provider key, store the new active row, and then, only with
\* deleteOld, delete the old provider key: while it requests the new key the
\* old row is inactive and no row for the new key exists; when it stores the
\* new row the new key exists at the provider and the old key has not been
\* deleted by it; and when it deletes the old key, deleteOld was asked for and
\* the new active row is in the store.
RotationStepOrder ==
  /\ [](\A p \in Procs :
          proc[p].pc \in {"ru_provider", "ra_provider"} =>
            /\ Row(proc[p].currentKey.id).status = "inactive"
            /\ proc[p].newOpenRouterKey = 0)
  /\ [][\A p \in Procs :
          (Rotating(p) /\ proc'[p] # proc[p]) =>
            /\ Len(openRouterKeys') > Len(openRouterKeys) =>
                 /\ Row(proc[p].currentKey.id).status = "inactive"
                 /\ user_api_keys' = user_api_keys
                 /\ \A i \in RowIds :
                      Row(i).openrouter_key_id # Len(openRouterKeys')
            /\ Len(user_api_keys') > Len(user_api_keys) =>
                 LET new == user_api_keys'[Len(user_api_keys')]
                 IN /\ new.openrouter_key_id \in 1..Len(openRouterKeys)
                    /\ new.openrouter_key_id = proc[p].newOpenRouterKey
                    /\ new.status = "active"
                    /\ Row(proc[p].currentKey.id).status = "inactive"
                    /\ openRouterKeys' = openRouterKeys
                    /\ ~openRouterKeys[proc[p].currentKey.openrouter_key_id].deleted
            /\ (\E k \in 1..Len(openRouterKeys) :
                  openRouterKeys'[k].deleted /\ ~openRouterKeys[k].deleted) =>
                 /\ proc[p].deleteOld
                 /\ openRouterKeys'[proc[p].currentKey.openrouter_key_id].deleted
                 /\ proc[p].newUserApiKey \in RowIds
                 /\ Row(proc[p].newUserApiKey).status = "active"
                 /\ Row(proc[p].newUserApiKey).openrouter_key_id =
                      proc[p].newOpenRouterKey
                 /\ Row(proc[p].currentKey.id).status = "inactive"]_vars

\* A rotation with deleteOld has finished with the old key deleted at the
\* provider and the new row active.
OldKeyDeletedLast ==
  /\ Finished("a", "rotate-user")
  /\ proc["a"].deleteOld
  /\ proc["a"].resp.status = 200
  /\ openRouterKeys[proc["a"].currentKey.openrouter_key_id].deleted
  /\ Row(proc["a"].newUserApiKey).status = "active"

\* C30: every log entry is stored against a row that is active when it is
\* stored and belongs to the entry's user: a step that stores an entry (or adds
\* to a row's usage) does so for such a row only, so that a log against an
\* inactive row or a row of another user stores no entry and adds no usage.
LogRefersToActiveOwnKey ==
  [][\A p \in Procs :
       (proc'[p] # proc[p] /\ proc'[p].op = "log") =>
         LET apiKeyId == proc'[p].resp.row
         IN (api_usage_logs' # api_usage_logs
               \/ user_api_keys' # user_api_keys) =>
              /\ apiKeyId \in RowIds
              /\ Row(apiKeyId).status = "active"
              /\ Row(apiKeyId).user_id = proc'[p].userId
              /\ \A r \in BagToSet(api_usage_logs') :
                   CopiesIn(r, api_usage_logs') > CopiesIn(r, api_usage_logs) =>
                     r.api_key_id = apiKeyId /\ r.user_id = proc'[p].userId]_vars

\* C31: the deactivation is one conditional update on (user_id, status =
\* active).  A deactivation that finds exactly one active row of the user makes
\* that row inactive, answers with it and touches nothing else; one that does
\* not leaves the table as it was and answers with an error.  So two
\* overlapping deactivations never both answer with the same row.
DeactivateAtomic ==
  /\ [](\A p \in Procs : \A q \in Procs \ {p} :
          (/\ Finished(p, "deactivate") /\ Finished(q, "deactivate")
           /\ proc[p].resp.status = 200 /\ proc[q].resp.status = 200) =>
            proc[p].resp.row # proc[q].resp.row)
  /\ [][\A p \in Procs :
          (/\ proc'[p] # proc[p]
           /\ Finished(p, "deactivate")') =>
            LET userId == proc'[p].userId
                active == ActiveIds(userId)
            IN IF Cardinality(active) = 1
               THEN /\ proc'[p].resp.status = 200
                    /\ proc'[p].resp.row \in active
                    /\ user_api_keys' =
                         [user_api_keys EXCEPT
                            ![proc'[p].resp.row].status = "inactive"]
               ELSE /\ proc'[p].resp.error # ""
                    /\ user_api_keys' = user_api_keys]_vars

TwoDeactivationsOneTransition ==
  /\ Finished("a", "deactivate") /\ Finished("b", "deactivate")
  /\ proc["a"].userId = proc["b"].userId
  /\ proc["a"].currentKey # NoRow
  /\ proc["a"].resp.status = 200
  /\ proc["b"].currentKey = NoRow
  /\ proc["b"].resp.error # ""
  /\ Row(proc["a"].resp.row).status = "inactive"
  /\ ActiveIds(proc["a"].userId) = {}

\* C32: current_usage of every row is never negative, and the only step that
\* lowers it is the monthly reset, for a row whose usage_reset_date is stale;
\* the row's current_usage is then 0.
UsageMonotoneUntilReset ==
  /\ [](\A i \in RowIds : Row(i).current_usage >= 0)
  /\ [][\A i \in RowIds :
          user_api_keys'[i].current_usage < Row(i).current_usage =>
            /\ resetLog' # resetLog
            /\ i \in StaleIds
            /\ user_api_keys'[i].current_usage = 0]_vars

UsageLoweredByReset ==
  \E i \in RowIds :
    /\ Finished("a", "reset") /\ proc["a"].resp.count > 0
    /\ Row(i).created_at < today
    /\ Row(i).usage_reset_date = today
    /\ Row(i).current_usage = 0
    /\ \E log \in BagToSet(api_usage_logs) :
         /\ log.api_key_id = i
         /\ log.created_at < today
         /\ ToDecimal2(log.cost_usd) > 0

\* C33: no step of create, rotate, deactivate, reset or rotate-all removes a
\* row of user_api_keys or turns it into another one (the table only grows,
\* every row keeps its id and its user), and a row whose status is inactive
\* stays inactive.
RecordsKeptInactiveTerminal ==
  [][/\ Len(user_api_keys') >= Len(user_api_keys)
     /\ \A i \in RowIds :
          /\ user_api_keys'[i].id = Row(i).id
          /\ user_api_keys'[i].user_id = Row(i).user_id
          /\ Row(i).status = "inactive" =>
               user_api_keys'[i].status = "inactive"]_vars

InactiveRowOutlivesLifecycle ==
  \E i \in RowIds : \E j \in RowIds : \E k \in RowIds :
    /\ i < j /\ j < k
    /\ Row(i).user_id = Row(j).user_id /\ Row(j).user_id = Row(k).user_id
    /\ Row(i).status = "inactive" /\ Row(j).status = "inactive"
    /\ Row(k).status = "active"
    /\ Row(i).created_at < today /\ Row(i).usage_reset_date = today
    /\ Finished("a", "rotate-all")

\* C34: a rotate-user request and the rotation pass overlapping on the same
\* users, with no provider or store failure: whenever both have ended, every
\* user who has a row has exactly one active row; and a rotation whose
\* deactivate step finds no active row of the user ends there as a failure,
\* with no key requested from the provider.
OverlappingRotationsOneActive ==
  /\ []((Free("a") /\ Free("b")) =>
          \A u \in Users :
            (\E i \in RowIds : Row(i).user_id = u) =>
              Cardinality(ActiveIds(u)) = 1)
  /\ [][\A p \in Procs :
          (/\ proc[p].pc \in {"ru_deactivate", "ra_deactivate"}
           /\ proc'[p] # proc[p]
           /\ ActiveIds(proc[p].userId) = {}) =>
            /\ openRouterKeys' = openRouterKeys
            /\ user_api_keys' = user_api_keys
            /\ proc'[p].pc \notin {"ru_provider", "ra_provider"}
            /\ IF proc[p].pc = "ru_deactivate"
               THEN proc'[p].pc = "done" /\ proc'[p].resp.error # ""
               ELSE /\ Len(proc'[p].results) = Len(proc[p].results) + 1
                    /\ LET r == proc'[p].results[Len(proc'[p].results)]
                       IN r.userId = proc[p].userId /\ ~r.success]_vars

RotationLostTheRace ==
  /\ Finished("a", "rotate-user") /\ Finished("b", "rotate-all")
  /\ proc["a"].resp.error # ""
  /\ proc["a"].currentKey # NoRow
  /\ \E i \in 1..Len(proc["b"].results) :
       /\ proc["b"].results[i].userId = proc["a"].userId
       /\ proc["b"].results[i].success
  /\ Cardinality(ActiveIds(proc["a"].userId)) = 1
  /\ Len(openRouterKeys) = 2

\* C36: the monthly reset looks at usage_reset_date only: every row whose
\* usage_reset_date is stale, active or inactive, gets current_usage 0 and
\* the start of the current month as usage_reset_date, and no row has its
\* status, monthly_limit or openrouter_key_id changed.
ResetIgnoresStatus ==
  [][resetLog' # resetLog =>
       \A i \in RowIds :
         /\ Row(i).usage_reset_date < today =>
              /\ user_api_keys'[i].current_usage = 0
              /\ user_api_keys'[i].usage_reset_date = today
         /\ user_api_keys'[i].status = Row(i).status
         /\ user_api_keys'[i].monthly_limit = Row(i).monthly_limit
         /\ user_api_keys'[i].openrouter_key_id = Row(i).openrouter_key_id]_vars

InactiveRowReset ==
  /\ Finished("a", "reset") /\ proc["a"].resp.count >= 2
  /\ \E i \in RowIds :
       /\ Row(i).status = "inactive"
       /\ Row(i).monthly_limit # NULL
       /\ Row(i).created_at < today
       /\ Row(i).usage_reset_date = today
       /\ Row(i).current_usage = 0
       /\ \E log \in BagToSet(api_usage_logs) :
            /\ log.api_key_id = i
            /\ log.created_at < today
            /\ ToDecimal2(log.cost_usd) > 0
       /\ \E j \in RowIds : /\ Row(j).status = "active"
                            /\ Row(j).user_id = Row(i).user_id
                            /\ Row(j).usage_reset_date = today
                            /\ Row(j).created_at < today

\* C37: a rotation through rotateUserKey, which is every rotation of the
\* scheduled pass, returns the old and the new row and nothing else: no step
\* of the pass returns or stores a secret or deletes a key at the provider,
\* and when the pass has ended, the active row of every user it rotated
\* refers to a key created during the pass, whose secret is in no response.
PassDeliversNoSecret ==
  /\ [](\A p \in Procs :
          proc[p].op = "rotate-all" =>
            /\ proc[p].resp.secret = 0
            /\ proc[p].resp.key = 0
            /\ Finished(p, "rotate-all") =>
                 \A n \in 1..Len(proc[p].results) :
                   proc[p].results[n].success =>
                     LET row == getUserApiKey(proc[p].results[n].userId)
                     IN /\ row # NoRow
                        /\ row.id > proc[p].rowsAtScan
                        /\ row.openrouter_key_id \notin Secrets
                        /\ \A q \in Procs :
                             proc[q].resp.secret #
                               SecretOf(row.openrouter_key_id))
  /\ [][\A p \in Procs :
          (proc[p].op = "rotate-all" /\ proc'[p] # proc[p]
             /\ proc'[p].op = "rotate-all") =>
            /\ \A k \in 1..Len(openRouterKeys) :
                 openRouterKeys'[k].deleted = openRouterKeys[k].deleted
            /\ user_api_keys' # user_api_keys /\ proc[p].pc = "ra_store" =>
                 /\ proc'[p].resp.status = 200
                 /\ proc'[p].resp.oldKey = proc[p].currentKey.id
                 /\ proc'[p].resp.row = Len(user_api_keys')
                 /\ Row(proc'[p].resp.oldKey).status = "inactive"
                 /\ user_api_keys'[proc'[p].resp.row].openrouter_key_id =
                      proc[p].newOpenRouterKey]_vars

PassRotatedKeyOfUser ==
  /\ Finished("a", "rotate-all")
  /\ Len(proc["a"].results) = 1
  /\ proc["a"].results[1].success
  /\ Len(user_api_keys) = 3
  /\ Row(3).status = "active"
  /\ Row(3).openrouter_key_id = 3
  /\ ~openRouterKeys[Row(2).openrouter_key_id].deleted
  /\ proc["a"].resp.secret = 0

\* C38: for every client key, no more than maxRequests requests are admitted
\* within one window; a request that arrives while the window is open and
\* the counter has reached maxRequests is answered 429 and leaves the counter
\* and resetTime as they were; and the first request after resetTime has
\* passed is admitted, with the counter at 1 and a new resetTime.
RateLimitPerWindow ==
  /\ [](\A key \in Clients : admitted[key] <= maxRequests)
  /\ [][\A key \in Clients :
          (rateLimiter(key) /\ requestCounts[key] # NoEntry) =>
            /\ (/\ now <= requestCounts[key].resetTime
                /\ requestCounts[key].count >= maxRequests) =>
                 /\ limiterRes'.status = 429
                 /\ limiterRes'.key = key
                 /\ requestCounts' = requestCounts
                 /\ admitted' = admitted
            /\ now > requestCounts[key].resetTime =>
                 /\ limiterRes'.status = 200
                 /\ limiterRes'.key = key
                 /\ requestCounts'[key] =
                      [count |-> 1, resetTime |-> now + windowMs]]_vars

RejectedInLaterWindow ==
  \E key \in Clients :
    /\ limiterRes = [key |-> key, status |-> 429, remaining |-> 0]
    /\ admitted[key] = maxRequests
    /\ requestCounts[key].count = maxRequests
    /\ requestCounts[key].resetTime > 2 * windowMs
    /\ now <= requestCounts[key].resetTime

\* The pass a scheduled callback starts, as client "a".
StartsPass(callback) ==
  /\ Fires(callback)
  /\ CASE callback = "checkUsageLimits" -> CheckUsageLimitsScan("a", TRUE)
       [] callback = "generateDailyReport" -> DailyReportStats("a", TRUE)
       [] callback = "rotateAllUserKeys" -> RotateAllScan("a")
       [] OTHER -> ResetUsage("a")

\* C39: a step in which a service is stopped changes its isRunning flag (and,
\* in gracefulShutdown, the state of the process) and nothing else: the
\* scheduled tasks, the store and the runs in flight are as before; and as
\* long as the process lives, the callback of every scheduled task can run
\* whenever no pass is in flight, whatever isRunning says and whether or not
\* the shutdown has begun.
StopChangesOnlyIsRunning ==
  /\ [][(\E service \in Services :
           isRunning[service] /\ ~isRunning'[service]) =>
          /\ cronTasks' = cronTasks
          /\ fired' = fired
          /\ storeVars' = storeVars
          /\ limiterVars' = limiterVars]_vars
  /\ [](\A callback \in Callbacks :
          (/\ cronTasks[callback] > 0
           /\ server # "exited"
           /\ Free("a")
           /\ callback \in {"resetMonthlyUsage", "serverResetMonthlyUsage"}
                => ResetRuns < MaxResets) =>
            ENABLED StartsPass(callback))

PassFiredAfterStop ==
  /\ server = "closing"
  /\ ~isRunning["keyRotationService"]
  /\ fired = [callback |-> "rotateAllUserKeys", isRunning |-> FALSE,
              server |-> "closing"]
  /\ Finished("a", "rotate-all")
  /\ Len(proc["a"].results) = 1
  /\ proc["a"].results[1].success
  /\ Len(user_api_keys) = 2

\* C35: the two scheduled monthly resets of one month, overlapping or not:
\* each row is reset only while it is stale, to current_usage 0 and the
\* current month; and when both runs have returned, every row that was stale
\* when the first of them started has been reset by exactly one of them, no row
\* is stale, and the two counts add up to the number of those rows.
ConcurrentResetsAsOne ==
  /\ []((/\ Finished("a", "reset") /\ Finished("b", "reset")
         /\ proc["a"].cycle = today /\ proc["b"].cycle = today) =>
          LET stale == proc["a"].staleAtStart \cup proc["b"].staleAtStart
          IN /\ proc["a"].updated \cap proc["b"].updated = {}
             /\ proc["a"].updated \cup proc["b"].updated = stale
             /\ proc["a"].resp.count + proc["b"].resp.count =
                  Cardinality(stale)
             /\ StaleIds = {}
             /\ \A i \in stale : /\ Row(i).current_usage = 0
                                 /\ Row(i).usage_reset_date = today)
  /\ [][\A p \in Procs :
          proc[p].pc = "rs_row" =>
            \A i \in RowIds :
              user_api_keys'[i] # Row(i) =>
                /\ Row(i).usage_reset_date < today
                /\ user_api_keys'[i] =
                     [Row(i) EXCEPT !.current_usage = 0,
                                    !.usage_reset_date = today]]_vars

OverlappingResetsAtBoundary ==
  /\ Finished("a", "reset") /\ Finished("b", "reset")
  /\ proc["a"].cycle = today /\ proc["b"].cycle = today
  /\ today > 0
  /\ Cardinality(proc["a"].staleAtStart) = 2
  /\ proc["b"].staleAtStart = proc["a"].staleAtStart
  /\ proc["a"].resp.count = 2
  /\ proc["b"].resp.count = 0
  /\ \E i \in proc["a"].updated :
       \E log \in BagToSet(api_usage_logs) :
         log.api_key_id = i /\ log.created_at < today

====
